---- MODULE Spec2Model ----
(***************************************************************************)
(* Remote device access orchestrator of Titan-Menu: the SSH connection     *)
(* through the bastion (ssh_remote.SSHConnection, bastion_manager), the    *)
(* device command runner with its username rotation                        *)
(* (ssh_remote.DeviceCommandRunner) and the jumpbox session handler        *)
(* (nre_jumpbox.NREJumpbox).                                                *)
(*                                                                         *)
(* A text (a Python str that the code inspects) is a sequence of           *)
(* one-character strings, so that lower(), upper(), strip() and the `in`   *)
(* substring test are computed character by character.                     *)
(***************************************************************************)
EXTENDS Integers, Sequences, FiniteSets, TLC

\* ------------------------------------------------------------------ bounds

\* Top-level calls (run_command / run_custom_command) made on one runner.
MaxCalls == 2

\* A new top-level call starts only while failed_usernames is shorter than this.
MaxFailed == 4

\* ------------------------------------------------------------------- texts

UpperLetters == <<"A", "B", "C", "D", "E", "F", "G", "H", "I", "J", "K", "L", "M", "N", "O", "P", "Q", "R", "S", "T", "U", "V", "W", "X", "Y", "Z">>

LowerLetters == <<"a", "b", "c", "d", "e", "f", "g", "h", "i", "j", "k", "l", "m", "n", "o", "p", "q", "r", "s", "t", "u", "v", "w", "x", "y", "z">>

Whitespace == {" ", "\t", "\n", "\r"}

\* The lower-case letter of each upper-case letter, and the converse.
ToLower == [c \in {UpperLetters[i] : i \in 1..26} |->
              LowerLetters[CHOOSE i \in 1..26 : UpperLetters[i] = c]]

ToUpper == [c \in {LowerLetters[i] : i \in 1..26} |->
              UpperLetters[CHOOSE i \in 1..26 : LowerLetters[i] = c]]

\* str.lower() on one character.
LowerChar(c) == IF c \in DOMAIN ToLower THEN ToLower[c] ELSE c

\* str.upper() on one character.
UpperChar(c) == IF c \in DOMAIN ToUpper THEN ToUpper[c] ELSE c

\* str.lower()
lower(s) == [i \in 1..Len(s) |-> LowerChar(s[i])]

\* str.upper()
upper(s) == [i \in 1..Len(s) |-> UpperChar(s[i])]

\* str.strip(): leading and trailing whitespace removed.
strip(s) ==
    LET keep == {i \in 1..Len(s) : s[i] \notin Whitespace}
    IN  IF keep = {} THEN <<>>
        ELSE LET lo == CHOOSE i \in keep : \A j \in keep : i <= j
                 hi == CHOOSE i \in keep : \A j \in keep : j <= i
             IN  SubSeq(s, lo, hi)

\* Python's `sub in s` on strings.
Contains(s, sub) ==
    \E i \in 0..(Len(s) - Len(sub)) : SubSeq(s, i + 1, i + Len(sub)) = sub

\* The phrase run_command looks for in a device's output.
PermissionDeniedPhrase == <<"p", "e", "r", "m", "i", "s", "s", "i", "o", "n", " ", "d", "e", "n", "i", "e", "d">>

\* The advisory word the execute operations look for in the error stream.
WarningWord == <<"W", "a", "r", "n", "i", "n", "g">>

\* ------------------------------------------------------------ ssh_config.py

DEFAULT_USERNAMES ==
    <<"vn59iz6", "neteng", "admin", "netman", "svc_netman", "bvneteng",
      "bootstrap", "vendor", "nettitansvc", "gec_netengmonitor",
      "svc_netengmonitor">>

cisco_ios == <<"c", "i", "s", "c", "o", "_", "i", "o", "s">>

arista_eos == <<"a", "r", "i", "s", "t", "a", "_", "e", "o", "s">>

juniper_junos == <<"j", "u", "n", "i", "p", "e", "r", "_", "j", "u", "n", "o", "s">>

sonic_cli == <<"s", "o", "n", "i", "c", "_", "c", "l", "i">>

\* DEVICE_SPECIFIC_USERNAMES.get(os, [])
DEVICE_SPECIFIC_USERNAMES(os) ==
    CASE os = cisco_ios ->
           <<"vn59iz6", "admin", "netadmin", "operator", "root", "network",
             "automation", "neteng">>
      [] os = arista_eos ->
           <<"admin", "automation", "netadmin", "operator", "neteng">>
      [] os = juniper_junos ->
           <<"root", "admin", "netops", "automation", "neteng">>
      [] os = sonic_cli ->
           <<"admin", "netadmin", "automation", "neteng">>
      [] OTHER -> <<>>

CISCO_IOS_USERNAMES ==
    <<"admin", "root", "netadmin", "operator", "network", "monitor", "view",
      "automation", "service", "support", "neteng", "netman", "bootstrap">>

\* OS_TYPES, in table (insertion) order: <<key, value>>.
OS_TYPES ==
    << <<<<"I", "O", "S">>, cisco_ios>>,
       <<<<"E", "O", "S">>, arista_eos>>,
       <<<<"J", "U", "N", "O", "S">>, juniper_junos>>,
       <<<<"S", "O", "N", "I", "C">>, sonic_cli>> >>

\* The command table of the four vendor tags; the juniper entries differ.
VendorCommands(os) ==
    [version |-> "show version",
     bgp_summary |-> IF os = juniper_junos THEN "show bgp summary"
                     ELSE "show ip bgp summary",
     interfaces |-> "show interfaces brief",
     routes |-> IF os = juniper_junos THEN "show route" ELSE "show ip route",
     neighbors |-> IF os = cisco_ios THEN "show cdp neighbors brief"
                   ELSE "show lldp neighbors"]

\* The tags that have an entry in SHOW_COMMANDS.
SHOW_COMMANDS_KEYS == {cisco_ios, arista_eos, juniper_junos, sonic_cli}

\* --------------------------------------------------------- bastion_config.py

BASTION_HOSTS_IDS ==
    {"nre_oser_jumpbox", "nre_traditional", "nre_gcloud_us_central",
     "nre_gcloud_us_west"}

BASTION_TYPE_SSH == "ssh"

BASTION_TYPE_GCLOUD == "gcloud"

\* BASTION_HOSTS[id]["type"]
BASTION_HOSTS_type(id) ==
    CASE id = "nre_oser_jumpbox" -> "nre_jumpbox"
      [] id = "nre_traditional" -> BASTION_TYPE_SSH
      [] id = "nre_gcloud_us_central" -> BASTION_TYPE_GCLOUD
      [] id = "nre_gcloud_us_west" -> BASTION_TYPE_GCLOUD

\* BASTION_HOSTS[id]["name"]
BASTION_HOSTS_name(id) ==
    CASE id = "nre_oser_jumpbox" -> <<"N", "R", "E", " ", "E", "n", "t", "e", "r", "p", "r", "i", "s", "e", " ", "O", "s", "e", "r", " ", "J", "u", "m", "p", "b", "o", "x", " ", "(", "T", "A", "C", "A", "C", "S", "+", ")">>
      [] id = "nre_traditional" -> <<"N", "R", "E", " ", "T", "r", "a", "d", "i", "t", "i", "o", "n", "a", "l", " ", "S", "S", "H", " ", "J", "u", "m", "p", " ", "H", "o", "s", "t", " ", "(", "L", "e", "g", "a", "c", "y", ")">>
      [] id = "nre_gcloud_us_central" -> <<"N", "R", "E", " ", "G", "o", "o", "g", "l", "e", " ", "C", "l", "o", "u", "d", " ", "B", "a", "s", "t", "i", "o", "n", " ", "(", "U", "S", " ", "C", "e", "n", "t", "r", "a", "l", ")">>
      [] id = "nre_gcloud_us_west" -> <<"N", "R", "E", " ", "G", "o", "o", "g", "l", "e", " ", "C", "l", "o", "u", "d", " ", "B", "a", "s", "t", "i", "o", "n", " ", "(", "U", "S", " ", "W", "e", "s", "t", ")">>

\* ssh_config.JUMP_HOST, the host connect_to_jumphost dials itself.
JUMP_HOST == "Oser500521.homeoffice.wal-mart.com"

\* ------------------------------------------------------------ model inputs

\* Bastion ids an SSHConnection is constructed with; the last is in no catalog.
BastionIds ==
    {"nre_traditional", "nre_gcloud_us_central", "nre_oser_jumpbox",
     "no_such_bastion"}

\* Raw OS strings a runner is constructed with ('Unknown' is main.py's default).
RawOsStrings == {<<"I", "O", "S">>, <<" ", "j", "u", "n", "o", "s", " ">>, <<"U", "n", "k", "n", "o", "w", "n">>}

\* Explicit username lists a runner is constructed with; <<>> stands for None.
ExplicitUsernames ==
    {<<>>, <<"admin", "netadmin", "neteng">>, <<"neteng", "neteng">>}

\* Command aliases passed to run_command.
Aliases == {"version", "custom"}

\* Literal commands passed to run_custom_command.
CustomCommands == {"show clock"}

\* Standard-output texts of a device command.
StdoutTexts ==
    {<<>>,
     <<"I", "O", "S", " ", "1", "5", ".", "2">>,
     <<"P", "e", "r", "m", "i", "s", "s", "i", "o", "n", " ", "d", "e", "n", "i", "e", "d">>,
     <<"x", " ", "P", "E", "R", "M", "I", "S", "S", "I", "O", "N", " ", "D", "E", "N", "I", "E", "D", ".">>,
     <<"p", "e", "r", "m", "i", "s", "s", "i", "o", "n", " ", "d", "e", "n", "i", "e", "d">>,
     <<"p", "e", "r", "m", "i", "s", "s", "i", "o", "n", " ", " ", "d", "e", "n", "i", "e", "d">>}

\* Error-stream texts of a device command.
StderrTexts ==
    {<<>>,
     <<"W", "a", "r", "n", "i", "n", "g", ":", " ", "P", "e", "r", "m", "a", "n", "e", "n", "t", "l", "y", " ", "a", "d", "d", "e", "d">>,
     <<"P", "e", "r", "m", "i", "s", "s", "i", "o", "n", " ", "d", "e", "n", "i", "e", "d", " ", "(", "p", "u", "b", "l", "i", "c", "k", "e", "y", ",", "p", "a", "s", "s", "w", "o", "r", "d", ")", ".">>}

\* The message of a timeout exception (socket.timeout, TimeoutExpired).
TimedOutText == <<"t", "i", "m", "e", "d", " ", "o", "u", "t">>

\* Messages of the exceptions, other than a timeout, that a remote call
\* raises; an OSError can carry the words of a timeout.
ExceptionTexts ==
    {<<"S", "o", "c", "k", "e", "t", " ", "i", "s", " ", "c", "l", "o", "s", "e", "d">>,
     TimedOutText}

\* What ssh_client can be: no client, a client that never connected, a
\* client with an active transport, a closed client.
ClientStates == {"None", "new", "open", "closed"}

\* The message of the exception exec_command raises on a client without an
\* active transport, and of the one raised when there is no client at all.
NoSessionText == <<"S", "S", "H", " ", "s", "e", "s", "s", "i", "o", "n", " ", "n", "o", "t", " ", "a", "c", "t", "i", "v", "e">>

NoClientText == <<"'", "N", "o", "n", "e", "T", "y", "p", "e", "'", " ", "o", "b", "j", "e", "c", "t", " ", "h", "a", "s", " ", "n", "o", " ", "a", "t", "t", "r", "i", "b", "u", "t", "e", " ", "'", "e", "x", "e", "c", "_", "c", "o", "m", "m", "a", "n", "d", "'">>

\* What exec_command on an open transport does: it completes with the two
\* streams, times out (socket.timeout) or raises another exception.
ExecOutcomes ==
    {[kind |-> "done", out |-> o, err |-> e] : o \in StdoutTexts, e \in StderrTexts}
    \cup {[kind |-> "timeout", out |-> <<>>, err |-> TimedOutText]}
    \cup {[kind |-> "error", out |-> <<>>, err |-> e] : e \in ExceptionTexts}

\* No exec_command was made.
NoResp == [kind |-> "none", out |-> <<>>, err |-> <<>>]

\* What exec_command on the jumpbox does: as above, and a completion whose
\* streams begin and end with blanks and line ends.
JbExecOutcomes ==
    ExecOutcomes
    \cup {[kind |-> "done", out |-> <<" ", "u", "p", " ", "3", " ", "d", "a", "y", "s", "\n">>, err |-> <<>>],
          [kind |-> "done", out |-> <<>>, err |-> <<" ", "N", "o", " ", "r", "o", "u", "t", "e", " ", "t", "o", " ", "h", "o", "s", "t", "\n">>],
          [kind |-> "done", out |-> <<>>, err |-> <<"\n">>]}

\* What the subprocess.run of `gcloud compute ssh` does: it exits with a
\* return code and the two streams, times out (TimeoutExpired) or raises
\* another exception.
GcloudOutcomes ==
    {[kind |-> "exit", code |-> 0, out |-> o, err |-> <<>>] : o \in StdoutTexts}
    \cup {[kind |-> "exit", code |-> 1, out |-> <<>>, err |-> e] : e \in StderrTexts}
    \cup {[kind |-> "timeout", code |-> 0, out |-> <<>>, err |-> TimedOutText]}
    \cup {[kind |-> "error", code |-> 0, out |-> <<>>, err |-> e] : e \in ExceptionTexts}

\* Outcomes of one gcloud preflight subprocess.run.
CliOutcomes == {"zero", "nonzero", "timeout", "notfound", "error"}

\* Outcomes of paramiko's SSHClient.connect.
ConnectOutcomes == {"ok", "auth", "timeout", "dns", "error"}

\* No object (Python's None); no candidate username has this name.
None == "None"

\* ---------------------------------------------------------------- the state

VARIABLES
    bastion_id,        \* SSHConnection.bastion_id
    bm_connected,      \* BastionManager.connected
    connected,         \* SSHConnection.connected
    ssh_client,        \* SSHConnection.ssh_client: None, new, open, closed
    conn_op,           \* the last operation called on the SSHConnection
    bm_op,             \* the last operation a caller made on the BastionManager
    device_os,         \* DeviceCommandRunner.device_os (normalized)
    usernames,         \* DeviceCommandRunner.usernames
    current_username,  \* DeviceCommandRunner.current_username
    authenticated,     \* DeviceCommandRunner.authenticated
    failed_usernames,  \* DeviceCommandRunner.failed_usernames
    pc,                \* position of the runner's caller
    rc_alias,          \* run_command's command_alias
    rc_idx,            \* run_command's position in self.usernames
    caller,            \* who called run_command: top or custom
    custom_cmd,        \* run_custom_command's command
    attempts,          \* execute calls issued by the current top-level call
    last_result,       \* (success, output) of the latest execute call
    entry,             \* runner fields when the current top-level call began
    ret,               \* what the last finished top-level call returned
    calls,             \* top-level calls begun
    jb_password,       \* NREJumpbox.password
    jb_home,           \* the files of ~/.ssh that _find_ssh_keys looks at
    jb_config,         \* NREJumpbox.config: primary_host, fallback_host
    jb_ssh_client,     \* NREJumpbox.ssh_client: None, new, open, closed
    jb_connected,      \* NREJumpbox.connected
    jb_current_host,   \* NREJumpbox.current_host
    jb_tried,          \* the _try_connect calls of the last connect()
    jb_ret,            \* what the last connect() returned
    jb_calls,          \* connect() calls made
    jb_pc,             \* position of the jumpbox's caller
    jb_hosts,          \* connect's hosts_to_try
    jb_idx,            \* connect's position in hosts_to_try
    jb_result,         \* what the last NREJumpbox.execute_command returned
    channel,           \* the relay's channel: None, open, remote_closed, closed
    stop_flag,         \* the relay's stop_flag (threading.Event)
    rd_pc,             \* position of the read_from_remote thread
    in_pc,             \* position of the read_from_stdin thread
    stdin_eof,         \* local input is at end-of-file
    sh_exit_read,      \* the input loop of this relay has read an exit line
    sh_eof_read,       \* the input loop of this relay has read end-of-file
    sh_ret,            \* what the last start_interactive_shell returned
    sh_line,           \* the last pass of the input loop: what it read and sent
    fn_call,           \* the last constructor or parser call, with its result
    jb_replaced,       \* states of the clients NREJumpbox.ssh_client has let go
    device_info_result,\* main's device_info_result
    main_pc,           \* position of main's menu loop
    main_printed       \* what option 14 has printed since it was chosen

conn_vars ==
    <<bastion_id, bm_connected, connected, ssh_client, conn_op, bm_op>>

runner_vars ==
    <<device_os, usernames, current_username, authenticated, failed_usernames,
      pc, rc_alias, rc_idx, caller, custom_cmd, attempts, last_result, entry,
      ret, calls>>

jb_vars ==
    <<jb_password, jb_home, jb_config, jb_ssh_client, jb_connected,
      jb_current_host, jb_tried, jb_ret, jb_calls, jb_pc, jb_hosts, jb_idx,
      jb_result, jb_replaced>>

sh_vars ==
    <<channel, stop_flag, rd_pc, in_pc, stdin_eof, sh_exit_read, sh_eof_read,
      sh_ret, sh_line>>

fn_vars == <<fn_call>>

main_vars == <<device_info_result, main_pc, main_printed>>

vars == <<conn_vars, runner_vars, jb_vars, sh_vars, fn_vars, main_vars>>

\* ------------------------------------------------------------- pure helpers

Range(s) == {s[i] : i \in 1..Len(s)}

\* list(dict.fromkeys(s)): duplicates removed, first occurrence kept.
RECURSIVE Dedup(_)
Dedup(s) ==
    IF s = <<>> THEN <<>>
    ELSE LET init == Dedup(SubSeq(s, 1, Len(s) - 1))
             last == s[Len(s)]
         IN  IF last \in Range(init) THEN init ELSE Append(init, last)

\* The value of the first OS_TYPES entry, from position i on, whose key
\* contains os_upper or is contained in it; <<>> when there is none.
RECURSIVE OsTypesSubstringMatch(_, _)
OsTypesSubstringMatch(os_upper, i) ==
    IF i > Len(OS_TYPES) THEN <<>>
    ELSE IF Contains(os_upper, OS_TYPES[i][1]) \/ Contains(OS_TYPES[i][1], os_upper)
         THEN OS_TYPES[i][2]
         ELSE OsTypesSubstringMatch(os_upper, i + 1)

\* A normalization whose substring test asks only whether the string
\* contains a table key.
normalize_os_type_KeyInStringOnly(os_type) ==
    LET os_upper == strip(upper(os_type))
        hits == {i \in 1..Len(OS_TYPES) : Contains(os_upper, OS_TYPES[i][1])}
    IN  IF hits # {}
        THEN OS_TYPES[CHOOSE i \in hits : \A j \in hits : i <= j][2]
        ELSE lower(os_upper)

\* DeviceCommandRunner._normalize_os_type
normalize_os_type(os_type) ==
    LET os_upper == strip(upper(os_type))
        exact == {i \in 1..Len(OS_TYPES) : OS_TYPES[i][1] = os_upper}
        sub == OsTypesSubstringMatch(os_upper, 1)
    IN  IF exact # {} THEN OS_TYPES[CHOOSE i \in exact : TRUE][2]
        ELSE IF sub # <<>> THEN sub
        ELSE lower(os_upper)

\* A candidate list that gets the Cisco usernames for every tag.
build_username_list_CiscoAlways(os) ==
    LET base == Dedup(DEVICE_SPECIFIC_USERNAMES(os) \o DEFAULT_USERNAMES)
        NotInBase(u) == u \notin Range(base)
    IN  base \o SelectSeq(CISCO_IOS_USERNAMES, NotInBase)

\* DeviceCommandRunner._build_username_list
build_username_list(os) ==
    LET base == Dedup(DEVICE_SPECIFIC_USERNAMES(os) \o DEFAULT_USERNAMES)
        NotInBase(u) == u \notin Range(base)
    IN  IF Contains(lower(os), <<"c", "i", "s", "c", "o">>)
        THEN base \o SelectSeq(CISCO_IOS_USERNAMES, NotInBase)
        ELSE base

\* DeviceCommandRunner.get_available_commands
get_available_commands(os) ==
    IF os \in SHOW_COMMANDS_KEYS THEN VendorCommands(os)
    ELSE [custom |-> "custom command"]

NotConnectedMsg == <<"[", "!", "]", " ", "N", "o", "t", " ", "c", "o", "n", "n", "e", "c", "t", "e", "d", " ", "t", "o", " ", "j", "u", "m", "p", " ", "h", "o", "s", "t">>

CommandTimeoutMsg == <<"[", "!", "]", " ", "C", "o", "m", "m", "a", "n", "d", " ", "t", "i", "m", "e", "o", "u", "t">>

CommandErrorMsg == <<"[", "!", "]", " ", "C", "o", "m", "m", "a", "n", "d", " ", "e", "r", "r", "o", "r", ":", " ">>

\* An execute that has no handler of its own for a timeout.
execute_command_on_device_NoTimeoutHandler(is_connected, client, resp) ==
    IF ~is_connected
    THEN [success |-> FALSE, output |-> NotConnectedMsg, issued |-> FALSE]
    ELSE IF client = None
         THEN [success |-> FALSE, output |-> CommandErrorMsg \o NoClientText,
               issued |-> FALSE]
    ELSE IF client # "open"
         THEN [success |-> FALSE, output |-> CommandErrorMsg \o NoSessionText,
               issued |-> FALSE]
    ELSE IF resp.kind \in {"error", "timeout"}
         THEN [success |-> FALSE, output |-> CommandErrorMsg \o resp.err,
               issued |-> TRUE]
    ELSE IF resp.err # <<>> /\ ~Contains(resp.err, WarningWord)
         THEN [success |-> FALSE, output |-> resp.err, issued |-> TRUE]
    ELSE [success |-> TRUE, output |-> resp.out, issued |-> TRUE]

\* SSHConnection.execute_command_on_device: the (success, output) it returns
\* when exec_command on an open transport behaves as resp, and whether a
\* command was issued on a transport.  A client that is absent or has no
\* active transport makes exec_command raise.
execute_command_on_device(is_connected, client, resp) ==
    IF ~is_connected
    THEN [success |-> FALSE, output |-> NotConnectedMsg, issued |-> FALSE]
    ELSE IF client = None
         THEN [success |-> FALSE, output |-> CommandErrorMsg \o NoClientText,
               issued |-> FALSE]
    ELSE IF client # "open"
         THEN [success |-> FALSE, output |-> CommandErrorMsg \o NoSessionText,
               issued |-> FALSE]
    ELSE IF resp.kind = "error"
         THEN [success |-> FALSE, output |-> CommandErrorMsg \o resp.err,
               issued |-> TRUE]
    ELSE IF resp.kind = "timeout"
         THEN [success |-> FALSE, output |-> CommandTimeoutMsg, issued |-> TRUE]
    ELSE IF resp.err # <<>> /\ ~Contains(resp.err, WarningWord)
         THEN [success |-> FALSE, output |-> resp.err, issued |-> TRUE]
    ELSE [success |-> TRUE, output |-> resp.out, issued |-> TRUE]

\* An acceptance test that looks for the phrase without lower-casing.
Accepted_CaseSensitive(r) ==
    /\ r.success
    /\ r.output # <<>>
    /\ ~Contains(r.output, PermissionDeniedPhrase)

\* run_command's acceptance test of one attempt's (success, output).
Accepted(r) ==
    /\ r.success
    /\ r.output # <<>>
    /\ ~Contains(lower(r.output), PermissionDeniedPhrase)

\* DeviceCommandRunner._build_auth_failure_message: the count and the sample
\* of usernames it prints, and the device type.
build_auth_failure_message(failed, os) ==
    [tried |-> Len(failed),
     sample |-> SubSeq(failed, 1, IF Len(failed) < 3 THEN Len(failed) ELSE 3),
     os |-> os]

\* ------------------------------------------- BastionManager, SSHConnection

\* Consecutive disconnect calls that the record of the last operation counts.
MaxRepeat == 2

NoConnOp ==
    [op |-> "none", ok |-> FALSE, bastion_ok |-> FALSE, dialed |-> <<>>,
     output |-> <<>>, issued |-> FALSE, cause |-> "none", resp |-> NoResp]

NoBmOp ==
    [op |-> "none", ok |-> FALSE, subprocs |-> <<>>, output |-> <<>>,
     cause |-> "none", times |-> 0]

\* The number of consecutive disconnect calls that ends with this one.
DisconnectTimes(last) ==
    IF last.op = "disconnect" /\ last.times < MaxRepeat THEN last.times + 1
    ELSE IF last.op = "disconnect" THEN MaxRepeat
    ELSE 1

\* SSHConnection._init_bastion_manager: the manager exists for a catalog id.
bastion_manager_present(id) == id \in BASTION_HOSTS_IDS

\* BastionManager.connect_ssh_bastion on an ssh descriptor: it reports the
\* bastion connected and runs nothing.
connect_ssh_bastion == [ok |-> TRUE, subprocs |-> <<>>]

\* A preflight that runs the identity check whatever the first check gave.
connect_gcloud_bastion_BothAlways(pre1, pre2) ==
    [ok |-> (pre2 = "zero"),
     subprocs |-> <<[cmd |-> "gcloud --version", outcome |-> pre1],
                    [cmd |-> "gcloud auth list", outcome |-> pre2]>>]

\* BastionManager.connect_gcloud_bastion on a gcloud descriptor: whether it
\* connects and the subprocesses it runs, given the outcomes of the two
\* preflight subprocess runs.
connect_gcloud_bastion(pre1, pre2) ==
    IF pre1 # "zero"
    THEN [ok |-> FALSE,
          subprocs |-> <<[cmd |-> "gcloud --version", outcome |-> pre1]>>]
    ELSE [ok |-> (pre2 = "zero"),
          subprocs |-> <<[cmd |-> "gcloud --version", outcome |-> pre1],
                         [cmd |-> "gcloud auth list", outcome |-> pre2]>>]

\* BastionManager.connect: dispatch on the bastion type.
bastion_connect(id, pre1, pre2) ==
    IF BASTION_HOSTS_type(id) = BASTION_TYPE_SSH THEN connect_ssh_bastion
    ELSE IF BASTION_HOSTS_type(id) = BASTION_TYPE_GCLOUD
         THEN connect_gcloud_bastion(pre1, pre2)
    ELSE [ok |-> FALSE, subprocs |-> <<>>]

\* What BastionManager.connect can do for a bastion id, over the outcomes
\* of the preflight subprocess runs.
bastion_connect_results(id) ==
    {bastion_connect(id, pre1, pre2) : pre1 \in CliOutcomes, pre2 \in CliOutcomes}

BastionNotConnectedMsg == <<"[", "!", "]", " ", "N", "o", "t", " ", "c", "o", "n", "n", "e", "c", "t", "e", "d", " ", "t", "o", " ", "b", "a", "s", "t", "i", "o", "n">>

BastionReadyMsg == <<"[", "*", "]", " ", "R", "e", "a", "d", "y", " ", "t", "o", " ", "e", "x", "e", "c", "u", "t", "e", " ", "v", "i", "a", " ">>

GcloudTimeoutMsg == <<"[", "!", "]", " ", "C", "o", "m", "m", "a", "n", "d", " ", "t", "i", "m", "e", "d", " ", "o", "u", "t">>

GcloudFailedMsg == <<"[", "!", "]", " ", "g", "c", "l", "o", "u", "d", " ", "e", "x", "e", "c", "u", "t", "i", "o", "n", " ", "f", "a", "i", "l", "e", "d", ":", " ">>

UnknownMethodMsg == <<"[", "!", "]", " ", "U", "n", "k", "n", "o", "w", "n", " ", "e", "x", "e", "c", "u", "t", "i", "o", "n", " ", "m", "e", "t", "h", "o", "d">>

\* An execute that does not look at the connected flag.
execute_command_via_bastion_NoGuard(id, is_connected, resp) ==
    LET tunnel == <<[cmd |-> "gcloud compute ssh", outcome |-> resp.kind]>>
    IN  IF BASTION_HOSTS_type(id) = BASTION_TYPE_SSH
        THEN [success |-> TRUE,
              output |-> BastionReadyMsg \o BASTION_HOSTS_name(id),
              subprocs |-> <<>>]
        ELSE IF BASTION_HOSTS_type(id) = BASTION_TYPE_GCLOUD
             THEN IF resp.kind = "timeout"
                  THEN [success |-> FALSE, output |-> GcloudTimeoutMsg,
                        subprocs |-> tunnel]
                  ELSE IF resp.kind = "error"
                       THEN [success |-> FALSE,
                             output |-> GcloudFailedMsg \o resp.err,
                             subprocs |-> tunnel]
                  ELSE IF resp.code = 0
                       THEN [success |-> TRUE, output |-> resp.out,
                             subprocs |-> tunnel]
                  ELSE [success |-> FALSE, output |-> resp.err,
                        subprocs |-> tunnel]
        ELSE [success |-> FALSE, output |-> UnknownMethodMsg, subprocs |-> <<>>]

\* BastionManager.execute_command_via_bastion with _execute_via_ssh_bastion
\* and _execute_via_gcloud_bastion: the (success, output) it returns and the
\* subprocesses it runs, when the `gcloud compute ssh` subprocess behaves as
\* resp.
execute_command_via_bastion(id, is_connected, resp) ==
    LET tunnel == <<[cmd |-> "gcloud compute ssh", outcome |-> resp.kind]>>
    IN  IF ~is_connected
        THEN [success |-> FALSE, output |-> BastionNotConnectedMsg,
              subprocs |-> <<>>]
        ELSE IF BASTION_HOSTS_type(id) = BASTION_TYPE_SSH
        THEN [success |-> TRUE,
              output |-> BastionReadyMsg \o BASTION_HOSTS_name(id),
              subprocs |-> <<>>]
        ELSE IF BASTION_HOSTS_type(id) = BASTION_TYPE_GCLOUD
             THEN IF resp.kind = "timeout"
                  THEN [success |-> FALSE, output |-> GcloudTimeoutMsg,
                        subprocs |-> tunnel]
                  ELSE IF resp.kind = "error"
                       THEN [success |-> FALSE,
                             output |-> GcloudFailedMsg \o resp.err,
                             subprocs |-> tunnel]
                  ELSE IF resp.code = 0
                       THEN [success |-> TRUE, output |-> resp.out,
                             subprocs |-> tunnel]
                  ELSE [success |-> FALSE, output |-> resp.err,
                        subprocs |-> tunnel]
        ELSE [success |-> FALSE, output |-> UnknownMethodMsg, subprocs |-> <<>>]

\* BastionManager.connect, called by a client of the manager.
BastionConnect ==
    /\ pc = "idle"
    /\ bastion_manager_present(bastion_id)
    /\ \E b \in bastion_connect_results(bastion_id) :
         /\ bm_connected' = IF b.ok THEN TRUE ELSE bm_connected
         /\ bm_op' = [NoBmOp EXCEPT !.op = "connect", !.ok = b.ok,
                                     !.subprocs = b.subprocs]
    /\ UNCHANGED <<bastion_id, connected, ssh_client, conn_op, runner_vars,
                   jb_vars, sh_vars, fn_vars, main_vars>>

\* BastionManager.execute_command_via_bastion, called by a client of the
\* manager.
BastionExecute ==
    /\ pc = "idle"
    /\ bastion_manager_present(bastion_id)
    /\ \E resp \in GcloudOutcomes :
         LET r == execute_command_via_bastion(bastion_id, bm_connected, resp)
         IN  bm_op' = [NoBmOp EXCEPT !.op = "execute", !.ok = r.success,
                                     !.subprocs = r.subprocs,
                                     !.output = r.output,
                                     !.cause = IF r.subprocs = <<>> THEN "none"
                                               ELSE resp.kind]
    /\ UNCHANGED <<bastion_id, bm_connected, connected, ssh_client, conn_op,
                   runner_vars, jb_vars, sh_vars, fn_vars, main_vars>>

\* A disconnect that clears the flag of a gcloud bastion only.
BastionDisconnect_GcloudOnly ==
    /\ pc = "idle"
    /\ bastion_manager_present(bastion_id)
    /\ bm_connected' = IF BASTION_HOSTS_type(bastion_id) = BASTION_TYPE_GCLOUD
                       THEN FALSE ELSE bm_connected
    /\ bm_op' = [NoBmOp EXCEPT !.op = "disconnect", !.ok = TRUE,
                                !.times = DisconnectTimes(bm_op)]
    /\ UNCHANGED <<bastion_id, connected, ssh_client, conn_op, runner_vars,
                   jb_vars, sh_vars, fn_vars, main_vars>>

\* BastionManager.disconnect, called by a client of the manager.
BastionDisconnect ==
    /\ pc = "idle"
    /\ bastion_manager_present(bastion_id)
    /\ bm_connected' = FALSE
    /\ bm_op' = [NoBmOp EXCEPT !.op = "disconnect", !.ok = TRUE,
                                !.times = DisconnectTimes(bm_op)]
    /\ UNCHANGED <<bastion_id, connected, ssh_client, conn_op, runner_vars,
                   jb_vars, sh_vars, fn_vars, main_vars>>

\* SSHConnection.connect_to_jumphost: the bastion manager's connect and,
\* when that fails, the connection's own dial of JUMP_HOST.
ConnectToJumphost ==
    /\ pc = "idle"
    /\ IF ~bastion_manager_present(bastion_id)
       THEN /\ conn_op' = [NoConnOp EXCEPT !.op = "connect"]
            /\ UNCHANGED <<bm_connected, connected, ssh_client, bm_op>>
       ELSE \E bastion_ok \in {b.ok : b \in bastion_connect_results(bastion_id)} :
              /\ UNCHANGED bm_op
              /\ IF bastion_ok
                 THEN /\ bm_connected' = TRUE
                      /\ connected' = TRUE
                      /\ conn_op' = [NoConnOp EXCEPT !.op = "connect", !.ok = TRUE,
                                                     !.bastion_ok = TRUE]
                      /\ UNCHANGED ssh_client
                 ELSE \E direct \in ConnectOutcomes :
                        /\ ssh_client' = IF direct = "ok" THEN "open" ELSE "new"
                        /\ connected' = IF direct = "ok" THEN TRUE ELSE connected
                        /\ conn_op' = [NoConnOp EXCEPT !.op = "connect",
                                                       !.ok = (direct = "ok"),
                                                       !.dialed = <<JUMP_HOST>>]
                        /\ UNCHANGED bm_connected
    /\ UNCHANGED <<bastion_id, runner_vars, jb_vars, sh_vars, fn_vars, main_vars>>

\* SSHConnection.execute_command_on_device, called on the connection itself.
SSHExecute ==
    /\ pc = "idle"
    /\ \E resp \in ExecOutcomes :
         LET r == execute_command_on_device(connected, ssh_client, resp)
         IN  conn_op' = [NoConnOp EXCEPT !.op = "execute", !.ok = r.success,
                                         !.output = r.output,
                                         !.issued = r.issued,
                                         !.cause = IF r.issued THEN resp.kind
                                                   ELSE "none",
                                         !.resp = IF r.issued THEN resp
                                                  ELSE NoResp]
    /\ UNCHANGED <<bastion_id, bm_connected, connected, ssh_client, bm_op,
                   runner_vars, jb_vars, sh_vars, fn_vars, main_vars>>

\* SSHConnection.disconnect
Disconnect ==
    /\ pc = "idle"
    /\ IF ssh_client # None
       THEN ssh_client' = "closed" /\ connected' = FALSE
       ELSE UNCHANGED <<ssh_client, connected>>
    /\ conn_op' = [NoConnOp EXCEPT !.op = "disconnect", !.ok = TRUE]
    /\ UNCHANGED <<bastion_id, bm_connected, bm_op, runner_vars, jb_vars,
                   sh_vars, fn_vars, main_vars>>

\* ---------------------------------------------------- DeviceCommandRunner

NoResult == [success |-> FALSE, output |-> <<>>, issued |-> FALSE]

NoMsg == [tried |-> 0, sample |-> <<>>, os |-> <<>>]

NoRet == [op |-> "none", success |-> FALSE, kind |-> "none", msg |-> NoMsg]

NoEntry ==
    [op |-> "none", arg |-> "", current_username |-> None,
     authenticated |-> FALSE, failed_usernames |-> <<>>]

\* The runner's fields as a top-level call op(arg) finds them.
EntryOf(op, arg) ==
    [op |-> op, arg |-> arg, current_username |-> current_username,
     authenticated |-> authenticated, failed_usernames |-> failed_usernames]

\* A top-level call may begin.
CanCall ==
    /\ pc = "idle"
    /\ calls < MaxCalls
    /\ Len(failed_usernames) < MaxFailed

\* run_command, lines 260-267: the alias lookup.  An absent alias returns
\* the unsupported-command failure to `who`; a present one enters the loop.
RunCommandEnter(alias, who) ==
    IF alias \notin DOMAIN get_available_commands(device_os)
    THEN /\ pc' = "idle"
         /\ ret' = IF who = "top"
                   THEN [op |-> "run_command", success |-> FALSE,
                         kind |-> "unsupported", msg |-> NoMsg]
                   ELSE [op |-> "run_custom_command", success |-> FALSE,
                         kind |-> "custom_auth_failed", msg |-> NoMsg]
         /\ UNCHANGED <<rc_alias, rc_idx, caller>>
    ELSE /\ pc' = "rc_loop"
         /\ rc_alias' = alias
         /\ rc_idx' = 1
         /\ caller' = who
         /\ ret' = NoRet

\* A run_command that clears failed_usernames before it looks the alias up.
RunCommandCall_ResetsFirst(alias) ==
    /\ CanCall
    /\ calls' = calls + 1
    /\ entry' = EntryOf("run_command", alias)
    /\ attempts' = <<>>
    /\ last_result' = NoResult
    /\ failed_usernames' = <<>>
    /\ RunCommandEnter(alias, "top")
    /\ UNCHANGED <<device_os, usernames, current_username, authenticated,
                   custom_cmd, conn_vars, jb_vars, sh_vars, fn_vars, main_vars>>

\* A top-level run_command(alias).
RunCommandCall(alias) ==
    /\ CanCall
    /\ calls' = calls + 1
    /\ entry' = EntryOf("run_command", alias)
    /\ attempts' = <<>>
    /\ last_result' = NoResult
    /\ RunCommandEnter(alias, "top")
    /\ UNCHANGED <<device_os, usernames, current_username, authenticated,
                   failed_usernames, custom_cmd, conn_vars, jb_vars, sh_vars,
                   fn_vars, main_vars>>

\* What execute_command_on_device can return on the connection as it is.
execute_results ==
    {execute_command_on_device(connected, ssh_client, resp) : resp \in ExecOutcomes}

\* A loop that walks the candidates from the last to the first.
CandidateAt_Reversed(names, idx) == names[Len(names) + 1 - idx]

\* run_command, line 268: the candidate of the idx-th pass of the loop.
CandidateAt(names, idx) == names[idx]

\* A record that puts the latest failure first.
RecordFailure_Prepend(failed, username) == <<username>> \o failed

\* A record that keeps the latest failure only.
RecordFailure_KeepsLast(failed, username) == <<username>>

\* run_command, line 292: the record of failed usernames after a rejection.
RecordFailure(failed, username) == Append(failed, username)

\* run_command, lines 268-295: one pass of the loop over self.usernames, and
\* the return that follows an acceptance or the last rejection.
RunCommandAttempt ==
    /\ pc = "rc_loop"
    /\ \E r \in execute_results :
         LET username == CandidateAt(usernames, rc_idx)
             actual_command == get_available_commands(device_os)[rc_alias]
         IN  /\ last_result' = r
             /\ IF Accepted(r)
                THEN /\ current_username' = username
                     /\ authenticated' = TRUE
                     /\ attempts' = Append(attempts,
                           [user |-> username, command |-> actual_command,
                            verdict |-> "accepted"])
                     /\ pc' = IF caller = "top" THEN "idle" ELSE "custom_exec"
                     /\ ret' = IF caller = "top"
                               THEN [op |-> "run_command", success |-> TRUE,
                                     kind |-> "parsed", msg |-> NoMsg]
                               ELSE ret
                     /\ UNCHANGED <<failed_usernames, rc_idx>>
                ELSE /\ failed_usernames' = RecordFailure(failed_usernames, username)
                     /\ attempts' = Append(attempts,
                           [user |-> username, command |-> actual_command,
                            verdict |-> "rejected"])
                     /\ UNCHANGED <<current_username, authenticated>>
                     /\ IF rc_idx < Len(usernames)
                        THEN /\ rc_idx' = rc_idx + 1
                             /\ UNCHANGED <<pc, ret>>
                        ELSE /\ pc' = "idle"
                             /\ ret' = IF caller = "top"
                                       THEN [op |-> "run_command", success |-> FALSE,
                                             kind |-> "auth_failed",
                                             msg |-> build_auth_failure_message(
                                                       failed_usernames', device_os)]
                                       ELSE [op |-> "run_custom_command",
                                             success |-> FALSE,
                                             kind |-> "custom_auth_failed",
                                             msg |-> NoMsg]
                             /\ UNCHANGED rc_idx
    /\ UNCHANGED <<device_os, usernames, rc_alias, caller, custom_cmd, entry,
                   calls, conn_vars, jb_vars, sh_vars, fn_vars, main_vars>>

\* A literal command issued under the first candidate of the list.
CustomExecute_FirstCandidate(prior, command, r) ==
    /\ last_result' = r
    /\ attempts' = Append(prior,
          [user |-> usernames[1], command |-> command, verdict |-> "none"])
    /\ ret' = [op |-> "run_custom_command", success |-> r.success,
               kind |-> "custom_output", msg |-> NoMsg]
    /\ pc' = "idle"

\* run_custom_command, lines 332-338: the literal command under current_username.
CustomExecute(prior, command, r) ==
    /\ last_result' = r
    /\ attempts' = Append(prior,
          [user |-> current_username, command |-> command, verdict |-> "none"])
    /\ ret' = [op |-> "run_custom_command", success |-> r.success,
               kind |-> "custom_output", msg |-> NoMsg]
    /\ pc' = "idle"

\* A top-level run_custom_command(command), lines 327-330: with no username
\* established it first calls run_command("version").
RunCustomCommandCall(command) ==
    /\ CanCall
    /\ calls' = calls + 1
    /\ entry' = EntryOf("run_custom_command", command)
    /\ custom_cmd' = command
    /\ IF ~authenticated /\ current_username = None
       THEN /\ attempts' = <<>>
            /\ last_result' = NoResult
            /\ RunCommandEnter("version", "custom")
       ELSE /\ \E r \in execute_results : CustomExecute(<<>>, command, r)
            /\ UNCHANGED <<rc_alias, rc_idx, caller>>
    /\ UNCHANGED <<device_os, usernames, current_username, authenticated,
                   failed_usernames, conn_vars, jb_vars, sh_vars, fn_vars, main_vars>>

\* run_custom_command after a successful probe.
RunCustomCommandExecute ==
    /\ pc = "custom_exec"
    /\ \E r \in execute_results : CustomExecute(attempts, custom_cmd, r)
    /\ UNCHANGED <<device_os, usernames, current_username, authenticated,
                   failed_usernames, rc_alias, rc_idx, caller, custom_cmd,
                   entry, calls, conn_vars, jb_vars, sh_vars, fn_vars, main_vars>>

\* ------------------------------------------------------------- NREJumpbox

\* connect() calls made on one jumpbox.
MaxConnects == 2

\* The file names _find_ssh_keys checks, in its order.
key_names == <<"id_rsa", "id_ecdsa", "id_ed25519", "id_dsa">>

\* What a path of ~/.ssh can be: absent, a directory, an unreadable file, a
\* file without the PRIVATE KEY marker, a file holding a private key.
FileKinds == {"absent", "dir", "unreadable", "other", "private_key"}

\* The ~/.ssh directories a jumpbox session is run with.
HomeDirs ==
    {[k \in Range(key_names) |-> "absent"],
     [k \in Range(key_names) |-> IF k = "id_rsa" THEN "private_key" ELSE "absent"],
     [k \in Range(key_names) |->
        CASE k = "id_rsa" -> "other"
          [] k = "id_ecdsa" -> "dir"
          [] k = "id_ed25519" -> "private_key"
          [] k = "id_dsa" -> "private_key"],
     [k \in Range(key_names) |-> IF k = "id_dsa" THEN "unreadable" ELSE "other"]}

\* Passwords a jumpbox is constructed with; the empty one is "not supplied".
JbPasswords == {"", "secret"}

\* NREJumpboxConfig values: the defaults, and the catalog's spelling.
JbConfigs ==
    {[primary_host |-> <<"o", "s", "e", "r", "5", "0", "0", "5", "2", "1">>, fallback_host |-> <<"o", "s", "e", "r", "5", "0", "0", "5", "2", "2">>],
     [primary_host |-> <<"O", "s", "e", "r", "5", "0", "0", "5", "2", "1">>, fallback_host |-> <<"O", "s", "e", "r", "5", "0", "0", "5", "2", "2">>]}

\* current_host before any connect (None), as a text that names no host.
NoHost == <<>>

\* A hostname used as it was configured.
format_hostname_AsGiven(hostname) == hostname

\* NREJumpbox._format_hostname
format_hostname(hostname) == lower(hostname)

\* NREJumpbox._find_ssh_keys
find_ssh_keys(home) ==
    LET IsKey(k) == home[k] = "private_key"
    IN  SelectSeq(key_names, IsKey)

\* A host list with the fallback host first.
hosts_to_try_FallbackFirst(config) ==
    <<format_hostname(config.fallback_host), format_hostname(config.primary_host)>>

\* NREJumpbox.connect, lines 112-115
hosts_to_try(config) ==
    <<format_hostname(config.primary_host), format_hostname(config.fallback_host)>>

\* A _try_connect that goes on to the password whatever the password is.
try_connect_AnyPassword(hostname, home, password, key_out, pw_out) ==
    LET ssh_keys == find_ssh_keys(home)
        key_try == [method |-> "key", outcome |-> key_out]
        pw_try == [method |-> "password", outcome |-> pw_out]
        by_password(before) ==
            [host |-> hostname, ok |-> (pw_out = "ok"),
             auth |-> Append(before, pw_try)]
    IN  IF ssh_keys # <<>>
        THEN IF key_out = "ok"
             THEN [host |-> hostname, ok |-> TRUE, auth |-> <<key_try>>]
             ELSE IF key_out = "auth"
                  THEN by_password(<<key_try>>)
                  ELSE [host |-> hostname, ok |-> FALSE, auth |-> <<key_try>>]
        ELSE by_password(<<>>)

\* A _try_connect that falls back to the password after any key failure.
try_connect_FallbackOnAnyError(hostname, home, password, key_out, pw_out) ==
    LET ssh_keys == find_ssh_keys(home)
        key_try == [method |-> "key", outcome |-> key_out]
        pw_try == [method |-> "password", outcome |-> pw_out]
        by_password(before) ==
            IF password = ""
            THEN [host |-> hostname, ok |-> FALSE, auth |-> before]
            ELSE [host |-> hostname, ok |-> (pw_out = "ok"),
                  auth |-> Append(before, pw_try)]
    IN  IF ssh_keys # <<>>
        THEN IF key_out = "ok"
             THEN [host |-> hostname, ok |-> TRUE, auth |-> <<key_try>>]
             ELSE by_password(<<key_try>>)
        ELSE by_password(<<>>)

\* NREJumpbox._try_connect on one host: whether it succeeds and the
\* SSHClient.connect calls it makes, when a key-based connect would end as
\* key_out and a password connect as pw_out.
try_connect(hostname, home, password, key_out, pw_out) ==
    LET ssh_keys == find_ssh_keys(home)
        key_try == [method |-> "key", outcome |-> key_out]
        pw_try == [method |-> "password", outcome |-> pw_out]
        by_password(before) ==
            IF password = ""
            THEN [host |-> hostname, ok |-> FALSE, auth |-> before]
            ELSE [host |-> hostname, ok |-> (pw_out = "ok"),
                  auth |-> Append(before, pw_try)]
    IN  IF ssh_keys # <<>>
        THEN IF key_out = "ok"
             THEN [host |-> hostname, ok |-> TRUE, auth |-> <<key_try>>]
             ELSE IF key_out = "auth"
                  THEN by_password(<<key_try>>)
                  ELSE [host |-> hostname, ok |-> FALSE, auth |-> <<key_try>>]
        ELSE by_password(<<>>)

\* _try_connect, line 176: self.ssh_client is bound to a new SSHClient; the
\* client it referred to, if any, is let go in the state it was in, for no
\* close is called on it.
Replaced(replaced, client) ==
    IF client = None THEN replaced ELSE replaced \cup {client}

\* NREJumpbox.connect, lines 112-115: the call begins with the host list.
NREJumpboxConnect ==
    /\ jb_pc = "idle"
    /\ jb_calls < MaxConnects
    /\ jb_calls' = jb_calls + 1
    /\ jb_hosts' = hosts_to_try(jb_config)
    /\ jb_idx' = 1
    /\ jb_tried' = <<>>
    /\ jb_ret' = [op |-> "none", success |-> FALSE]
    /\ jb_pc' = "connect_loop"
    /\ UNCHANGED <<jb_password, jb_home, jb_config, jb_replaced,
                   jb_ssh_client,
                   jb_connected, jb_current_host, jb_result, conn_vars,
                   runner_vars, sh_vars, fn_vars, main_vars>>

\* NREJumpbox.connect, lines 117-123: one pass of the loop over the hosts,
\* and the return that follows a success or the last failure.
NREJumpboxTryHost ==
    /\ jb_pc = "connect_loop"
    /\ \E key_out \in ConnectOutcomes, pw_out \in ConnectOutcomes :
         LET host == jb_hosts[jb_idx]
             t == try_connect(host, jb_home, jb_password, key_out, pw_out)
         IN  /\ jb_tried' = Append(jb_tried, t)
             /\ jb_ssh_client' = IF t.ok THEN "open" ELSE "new"
             /\ jb_replaced' = Replaced(jb_replaced, jb_ssh_client)
             /\ IF t.ok
                THEN /\ jb_current_host' = host
                     /\ jb_connected' = TRUE
                     /\ jb_ret' = [op |-> "connect", success |-> TRUE]
                     /\ jb_pc' = "idle"
                     /\ UNCHANGED jb_idx
                ELSE /\ UNCHANGED <<jb_current_host, jb_connected>>
                     /\ IF jb_idx < Len(jb_hosts)
                        THEN /\ jb_idx' = jb_idx + 1
                             /\ UNCHANGED <<jb_pc, jb_ret>>
                        ELSE /\ jb_ret' = [op |-> "connect", success |-> FALSE]
                             /\ jb_pc' = "idle"
                             /\ UNCHANGED jb_idx
    /\ UNCHANGED <<jb_password, jb_home, jb_config, jb_hosts, jb_calls,
                   jb_result, conn_vars, runner_vars, sh_vars, fn_vars,
                   main_vars>>

\* NREJumpbox.disconnect
NREJumpboxDisconnect ==
    /\ jb_pc = "idle"
    /\ IF jb_ssh_client # None
       THEN jb_ssh_client' = "closed" /\ jb_connected' = FALSE
       ELSE UNCHANGED <<jb_ssh_client, jb_connected>>
    /\ jb_ret' = [op |-> "disconnect", success |-> TRUE,
                  times |-> DisconnectTimes([op |-> jb_ret.op,
                               times |-> IF jb_ret.op = "disconnect"
                                         THEN jb_ret.times ELSE 0])]
    /\ UNCHANGED <<jb_password, jb_home, jb_config, jb_replaced,
                   jb_current_host, jb_tried,
                   jb_calls, jb_pc, jb_hosts, jb_idx, jb_result, conn_vars,
                   runner_vars, sh_vars, fn_vars, main_vars>>

JbNotConnectedMsg == <<"[", "!", "]", " ", "N", "o", "t", " ", "c", "o", "n", "n", "e", "c", "t", "e", "d", " ", "t", "o", " ", "j", "u", "m", "p", "b", "o", "x">>

JbErrorMsg == <<"[", "!", "]", " ", "E", "r", "r", "o", "r", ":", " ">>

NoJbResult ==
    [success |-> FALSE, output |-> <<>>, issued |-> FALSE, cause |-> "none",
     resp |-> NoResp]

\* An execute that fails on every non-empty error stream.
jb_execute_command_NoAdvisory(is_connected, client, resp) ==
    IF ~is_connected
    THEN [success |-> FALSE, output |-> JbNotConnectedMsg, issued |-> FALSE]
    ELSE IF client = None
         THEN [success |-> FALSE, output |-> JbErrorMsg \o NoClientText,
               issued |-> FALSE]
    ELSE IF client # "open"
         THEN [success |-> FALSE, output |-> JbErrorMsg \o NoSessionText,
               issued |-> FALSE]
    ELSE IF resp.kind = "error"
         THEN [success |-> FALSE, output |-> JbErrorMsg \o resp.err,
               issued |-> TRUE]
    ELSE IF resp.kind = "timeout"
         THEN [success |-> FALSE, output |-> CommandTimeoutMsg, issued |-> TRUE]
    ELSE IF resp.err # <<>>
         THEN [success |-> FALSE, output |-> strip(resp.err), issued |-> TRUE]
    ELSE [success |-> TRUE, output |-> strip(resp.out), issued |-> TRUE]

\* NREJumpbox.execute_command: the (success, output) it returns when
\* exec_command on an open transport behaves as resp, and whether a command
\* was issued on a transport.
jb_execute_command(is_connected, client, resp) ==
    IF ~is_connected
    THEN [success |-> FALSE, output |-> JbNotConnectedMsg, issued |-> FALSE]
    ELSE IF client = None
         THEN [success |-> FALSE, output |-> JbErrorMsg \o NoClientText,
               issued |-> FALSE]
    ELSE IF client # "open"
         THEN [success |-> FALSE, output |-> JbErrorMsg \o NoSessionText,
               issued |-> FALSE]
    ELSE IF resp.kind = "error"
         THEN [success |-> FALSE, output |-> JbErrorMsg \o resp.err,
               issued |-> TRUE]
    ELSE IF resp.kind = "timeout"
         THEN [success |-> FALSE, output |-> CommandTimeoutMsg, issued |-> TRUE]
    ELSE IF resp.err # <<>> /\ ~Contains(resp.err, WarningWord)
         THEN [success |-> FALSE, output |-> strip(resp.err), issued |-> TRUE]
    ELSE [success |-> TRUE, output |-> strip(resp.out), issued |-> TRUE]

\* NREJumpbox.execute_command
NREJumpboxExecute ==
    /\ jb_pc = "idle"
    /\ \E resp \in JbExecOutcomes :
         LET r == jb_execute_command(jb_connected, jb_ssh_client, resp)
         IN  /\ jb_result' = [success |-> r.success, output |-> r.output,
                              issued |-> r.issued,
                              cause |-> IF r.issued THEN resp.kind ELSE "none",
                              resp |-> IF r.issued THEN resp ELSE NoResp]
             /\ jb_ret' = [op |-> "execute", success |-> r.success]
    /\ UNCHANGED <<jb_password, jb_home, jb_config, jb_replaced,
                   jb_ssh_client,
                   jb_connected, jb_current_host, jb_tried, jb_calls, jb_pc,
                   jb_hosts, jb_idx, conn_vars, runner_vars, sh_vars, fn_vars, main_vars>>

\* ------------------------------------- NREJumpbox.start_interactive_shell

\* The lines that end the relay, line 319.
ExitWords == {<<"e", "x", "i", "t">>, <<"l", "o", "g", "o", "u", "t">>, <<"q", "u", "i", "t">>}

\* Lines the user types, each as sys.stdin.readline returns it.
InputLines ==
    {<<"e", "x", "i", "t", "\n">>,
     <<" ", " ", "q", "u", "i", "t", " ", "\n">>,
     <<"l", "o", "g", "o", "u", "t", "\n">>,
     <<"l", "s", "\n">>,
     <<"E", "x", "i", "t", "\n">>,
     <<"e", "x", "i", "t", " ", "n", "o", "w", "\n">>,
     <<"\n">>}

\* What channel.recv does on an open channel: data arrives, the 0.1 s
\* timeout passes, or another exception is raised.
RecvOutcomes == {"data", "timeout", "error"}

\* No pass of the input loop has been made.
NoLine == [nonempty |-> FALSE, exit |-> FALSE, sent |-> FALSE]

\* An input loop that sets the stop flag for an exit line before it sends it.
read_line_StopsBeforeSend(cmd, send_ok) ==
    IF cmd = <<>> THEN [sent |-> FALSE, stop |-> FALSE, next |-> "check"]
    ELSE IF strip(cmd) \in ExitWords
         THEN [sent |-> send_ok, stop |-> TRUE, next |-> "done"]
    ELSE IF ~send_ok THEN [sent |-> FALSE, stop |-> FALSE, next |-> "done"]
    ELSE [sent |-> TRUE, stop |-> FALSE, next |-> "check"]

\* An input loop that sends an exit line like any other line and goes on.
read_line_IgnoresExit(cmd, send_ok) ==
    IF cmd = <<>> THEN [sent |-> FALSE, stop |-> FALSE, next |-> "check"]
    ELSE IF ~send_ok THEN [sent |-> FALSE, stop |-> FALSE, next |-> "done"]
    ELSE [sent |-> TRUE, stop |-> FALSE, next |-> "check"]

\* read_from_stdin, lines 316-323: what one pass does with the text cmd that
\* readline returned (the empty text at end-of-file), when channel.send
\* succeeds or raises: whether the line was sent, whether the stop flag is
\* set, and where the loop goes.
read_line(cmd, send_ok) ==
    IF cmd = <<>> THEN [sent |-> FALSE, stop |-> FALSE, next |-> "check"]
    ELSE IF ~send_ok THEN [sent |-> FALSE, stop |-> FALSE, next |-> "done"]
    ELSE IF strip(cmd) \in ExitWords
         THEN [sent |-> TRUE, stop |-> TRUE, next |-> "done"]
    ELSE [sent |-> TRUE, stop |-> FALSE, next |-> "check"]

\* start_interactive_shell, lines 280-331: not connected, or invoke_shell
\* raising, returns false; otherwise the channel is opened, both threads are
\* started and the caller waits for the input thread.  A relay begins after
\* the reader of the previous relay has ended.
StartInteractiveShell ==
    /\ jb_pc = "idle"
    /\ rd_pc \in {"none", "done"}
    /\ sh_exit_read' = FALSE
    /\ sh_eof_read' = FALSE
    /\ sh_line' = NoLine
    /\ IF ~jb_connected
       THEN /\ sh_ret' = "false"
            /\ UNCHANGED <<jb_pc, channel, stop_flag, rd_pc, in_pc>>
       ELSE \E invoke_ok \in (IF jb_ssh_client = "open" THEN BOOLEAN ELSE {FALSE}) :
              IF ~invoke_ok
              THEN /\ sh_ret' = "false"
                   /\ UNCHANGED <<jb_pc, channel, stop_flag, rd_pc, in_pc>>
              ELSE /\ channel' = "open"
                   /\ stop_flag' = FALSE
                   /\ rd_pc' = "check"
                   /\ in_pc' = "check"
                   /\ sh_ret' = "none"
                   /\ jb_pc' = "sh_join_stdin"
    /\ UNCHANGED <<jb_password, jb_home, jb_config, jb_replaced,
                   jb_ssh_client,
                   jb_connected, jb_current_host, jb_tried, jb_ret, jb_calls,
                   jb_hosts, jb_idx, jb_result, stdin_eof, conn_vars,
                   runner_vars, fn_vars, main_vars>>

\* read_from_remote, line 300: the loop test.
RemoteLoopTest ==
    /\ rd_pc = "check"
    /\ rd_pc' = IF stop_flag THEN "done" ELSE "recv"
    /\ UNCHANGED <<channel, stop_flag, in_pc, stdin_eof, sh_exit_read,
                   sh_eof_read, sh_line, sh_ret, conn_vars, runner_vars, jb_vars,
                   fn_vars, main_vars>>

\* read_from_remote, lines 301-310: one channel.recv.  A channel that either
\* side has closed yields no data and the loop ends.
RemoteRecv ==
    /\ rd_pc = "recv"
    /\ \E out \in (IF channel = "open" THEN RecvOutcomes ELSE {"eof"}) :
         rd_pc' = IF out \in {"data", "timeout"} THEN "check" ELSE "done"
    /\ UNCHANGED <<channel, stop_flag, in_pc, stdin_eof, sh_exit_read,
                   sh_eof_read, sh_line, sh_ret, conn_vars, runner_vars, jb_vars,
                   fn_vars, main_vars>>

\* read_from_stdin, line 314: the loop test.
StdinLoopTest ==
    /\ in_pc = "check"
    /\ in_pc' = IF stop_flag THEN "done" ELSE "readline"
    /\ UNCHANGED <<channel, stop_flag, rd_pc, stdin_eof, sh_exit_read,
                   sh_eof_read, sh_line, sh_ret, conn_vars, runner_vars, jb_vars,
                   fn_vars, main_vars>>

\* read_from_stdin, lines 316-323, for the text cmd that readline returned.
\* channel.send raises on a closed channel and may raise on an open one.
StdinRead(cmd) ==
    /\ in_pc = "readline"
    /\ \E send_ok \in (IF channel = "open" THEN BOOLEAN ELSE {FALSE}) :
         LET r == read_line(cmd, send_ok)
         IN  /\ in_pc' = r.next
             /\ stop_flag' = (stop_flag \/ r.stop)
             /\ sh_line' = [nonempty |-> cmd # <<>>,
                            exit |-> strip(cmd) \in ExitWords,
                            sent |-> r.sent]
    /\ sh_exit_read' = (sh_exit_read \/ strip(cmd) \in ExitWords)
    /\ sh_eof_read' = (sh_eof_read \/ cmd = <<>>)
    /\ UNCHANGED <<channel, rd_pc, stdin_eof, sh_ret, conn_vars, runner_vars,
                   jb_vars, fn_vars, main_vars>>

\* The user enters a line and readline returns it.
StdinReadLine ==
    /\ ~stdin_eof
    /\ \E cmd \in InputLines : StdinRead(cmd)

\* Local input is at end-of-file: readline returns the empty text at once.
StdinReadEOF ==
    /\ stdin_eof
    /\ StdinRead(<<>>)

\* Local input reaches end-of-file.
StdinCloses ==
    /\ ~stdin_eof
    /\ stdin_eof' = TRUE
    /\ UNCHANGED <<channel, stop_flag, rd_pc, in_pc, sh_exit_read, sh_eof_read, sh_line,
                   sh_ret, conn_vars, runner_vars, jb_vars, fn_vars, main_vars>>

\* The remote side closes the channel.
RemoteCloses ==
    /\ channel = "open"
    /\ channel' = "remote_closed"
    /\ UNCHANGED <<stop_flag, rd_pc, in_pc, stdin_eof, sh_exit_read,
                   sh_eof_read, sh_line, sh_ret, conn_vars, runner_vars, jb_vars,
                   fn_vars, main_vars>>

\* start_interactive_shell, lines 331-333: stdin_thread.join() returns once
\* the input thread has ended, and the stop flag is set.
ShellJoinStdin ==
    /\ jb_pc = "sh_join_stdin"
    /\ in_pc = "done"
    /\ stop_flag' = TRUE
    /\ jb_pc' = "sh_join_reader"
    /\ UNCHANGED <<jb_password, jb_home, jb_config, jb_replaced,
                   jb_ssh_client,
                   jb_connected, jb_current_host, jb_tried, jb_ret, jb_calls,
                   jb_hosts, jb_idx, jb_result, channel, rd_pc, in_pc,
                   stdin_eof, sh_exit_read, sh_eof_read, sh_line, sh_ret, conn_vars,
                   runner_vars, fn_vars, main_vars>>

\* start_interactive_shell, lines 335-338: reader_thread.join(timeout=1)
\* returns when the reader has ended or the second has passed; the channel
\* is closed and the call returns true.
ShellJoinReader ==
    /\ jb_pc = "sh_join_reader"
    /\ channel' = "closed"
    /\ sh_ret' = "true"
    /\ jb_pc' = "idle"
    /\ UNCHANGED <<jb_password, jb_home, jb_config, jb_replaced,
                   jb_ssh_client,
                   jb_connected, jb_current_host, jb_tried, jb_ret, jb_calls,
                   jb_hosts, jb_idx, jb_result, stop_flag, rd_pc, in_pc,
                   stdin_eof, sh_exit_read, sh_eof_read, sh_line, conn_vars,
                   runner_vars, fn_vars, main_vars>>

\* ----------------------------------------------------------- ssh_parsers.py

Digits == {"0", "1", "2", "3", "4", "5", "6", "7", "8", "9"}

\* The regular-expression class [\d.]
DigitsDot == Digits \cup {"."}

\* The regular-expression class [A-Z0-9]
UpperAlnum == {UpperLetters[i] : i \in 1..26} \cup Digits

Min(S) == CHOOSE x \in S : \A y \in S : x <= y

Max(S) == CHOOSE x \in S : \A y \in S : y <= x

\* The positions of s at which sub begins.
Occurrences(s, sub) ==
    {i \in 1..(Len(s) - Len(sub) + 1) : SubSeq(s, i, i + Len(sub) - 1) = sub}

\* The last position of the longest run of characters of cls that begins at
\* position i of s; i - 1 when there is no such character at i.
RunEnd(s, i, cls) ==
    LET stops == {j \in i..Len(s) : s[j] \notin cls}
    IN  IF stops # {} THEN Min(stops) - 1
        ELSE IF i > Len(s) THEN i - 1
        ELSE Len(s)

\* The last position of the line of s that position i is on.
LineEnd(s, i) ==
    LET stops == {j \in i..Len(s) : s[j] = "\n"}
    IN  IF stops # {} THEN Min(stops) - 1
        ELSE IF i > Len(s) THEN i - 1
        ELSE Len(s)

\* s[:n]
Prefix(s, n) == SubSeq(s, 1, IF Len(s) < n THEN Len(s) ELSE n)

\* s.split(sep) for a one-character separator.
RECURSIVE Split(_, _)
Split(s, sep) ==
    LET at == {i \in 1..Len(s) : s[i] = sep}
    IN  IF at = {} THEN <<s>>
        ELSE <<SubSeq(s, 1, Min(at) - 1)>>
             \o Split(SubSeq(s, Min(at) + 1, Len(s)), sep)

\* line.split(":")[1].strip(), for a line that has a colon.
SecondField(line) == strip(Split(line, ":")[2])

\* What re.search returns: no match, or a match with its group(1).
NoMatch == [found |-> FALSE, group |-> <<>>]

Match(g) == [found |-> TRUE, group |-> g]

\* match.group(1).strip()
Stripped(m) == [m EXCEPT !.group = strip(@)]

\* re.search(r"before(.*?)after", s): the leftmost `before` that has an
\* `after` later on its line, and the text up to the nearest one.
SearchBetween(s, before, after) ==
    LET from(i) == i + Len(before)
        ends(i) == {j \in Occurrences(s, after) :
                      j >= from(i) /\ LineEnd(s, from(i)) >= j - 1}
        starts == {i \in Occurrences(s, before) : ends(i) # {}}
    IN  IF starts = {} THEN NoMatch
        ELSE Match(SubSeq(s, from(Min(starts)), Min(ends(Min(starts))) - 1))

\* re.search(r"word\s+([cls]+)", s)
SearchAfterBlanks(s, word, cls) ==
    LET ws(i) == RunEnd(s, i + Len(word), Whitespace)
        run(i) == RunEnd(s, ws(i) + 1, cls)
        starts == {i \in Occurrences(s, word) :
                     ws(i) >= i + Len(word) /\ run(i) > ws(i)}
    IN  IF starts = {} THEN NoMatch
        ELSE Match(SubSeq(s, ws(Min(starts)) + 1, run(Min(starts))))

\* re.search(r"word([cls]+)", s)
SearchAfter(s, word, cls) ==
    LET run(i) == RunEnd(s, i + Len(word), cls)
        starts == {i \in Occurrences(s, word) : run(i) >= i + Len(word)}
    IN  IF starts = {} THEN NoMatch
        ELSE Match(SubSeq(s, Min(starts) + Len(word), run(Min(starts))))

\* re.search(r"word\s*:\s*([cls]+)", s)
SearchAfterColon(s, word, cls) ==
    LET colon(i) == RunEnd(s, i + Len(word), Whitespace) + 1
        first(i) == RunEnd(s, colon(i) + 1, Whitespace) + 1
        run(i) == RunEnd(s, first(i), cls)
        starts == {i \in Occurrences(s, word) :
                     /\ colon(i) <= Len(s)
                     /\ s[colon(i)] = ":"
                     /\ run(i) >= first(i)}
    IN  IF starts = {} THEN NoMatch
        ELSE Match(SubSeq(s, first(Min(starts)), run(Min(starts))))

\* re.search(r"([cls]+)c", s): the leftmost run of cls that c follows.
SearchBefore(s, cls, c) ==
    LET run(i) == RunEnd(s, i, cls)
        starts == {i \in 1..Len(s) :
                     /\ s[i] \in cls
                     /\ run(i) < Len(s)
                     /\ s[run(i) + 1] = c}
    IN  IF starts = {} THEN NoMatch
        ELSE Match(SubSeq(s, Min(starts), run(Min(starts))))

\* re.search(r"word(.+)$", s, re.MULTILINE): the rest of the line.
SearchRestOfLine(s, word) ==
    LET starts == {i \in Occurrences(s, word) :
                     LineEnd(s, i + Len(word)) >= i + Len(word)}
    IN  IF starts = {} THEN NoMatch
        ELSE Match(SubSeq(s, Min(starts) + Len(word),
                          LineEnd(s, Min(starts) + Len(word))))

\* re.match(r"^\s*\d+\.\d+\.\d+\.\d+", line)
LeadsWithIPv4(line) ==
    LET k == RunEnd(line, 1, Whitespace) + 1
        a == RunEnd(line, k, Digits)
        b == RunEnd(line, a + 2, Digits)
        c == RunEnd(line, b + 2, Digits)
        d == RunEnd(line, c + 2, Digits)
    IN  /\ a >= k /\ a < Len(line) /\ line[a + 1] = "."
        /\ b >= a + 2 /\ b < Len(line) /\ line[b + 1] = "."
        /\ c >= b + 2 /\ c < Len(line) /\ line[c + 1] = "."
        /\ d >= c + 2

\* The lines that begin with an IPv4 address.
IPv4Lines(lines) == {i \in 1..Len(lines) : LeadsWithIPv4(lines[i])}

\* `if neighbor_count > 0: data[...] = neighbor_count`
Counted(n) == IF n > 0 THEN Match(n) ELSE NoMatch

\* The first phrase of the if/elif chain that the line contains; 0 for none.
Branch(line, phrases) ==
    LET hit == {i \in 1..Len(phrases) : Contains(line, phrases[i])}
    IN  IF hit = {} THEN 0 ELSE Min(hit)

\* What a loop over the lines leaves in a field, given for each line what
\* the line assigns to it (no match: nothing): the last line's value.
LastAssigned(assigned) ==
    LET at == {i \in 1..Len(assigned) : assigned[i].found}
    IN  IF at = {} THEN NoMatch ELSE assigned[Max(at)]

\* The field of the if/elif chain's n-th branch after the loop over the lines.
BranchField(lines, phrases, n) ==
    LastAssigned([i \in 1..Len(lines) |->
                    IF Branch(lines[i], phrases) = n
                    THEN Match(SecondField(lines[i]))
                    ELSE NoMatch])

\* The dict that holds the fields that were set; fields is <<key, match>> pairs.
Dict(fields) ==
    LET set == {i \in 1..Len(fields) : fields[i][2].found}
    IN  [k \in {fields[i][1] : i \in set} |->
           fields[CHOOSE i \in set : fields[i][1] = k][2].group]

\* `data or {"raw_output": output[:500]}`
OrRawOutput(data, output) ==
    IF DOMAIN data = {} THEN [raw_output |-> Prefix(output, 500)] ELSE data

\* OutputParser._parse_cisco_version
parse_cisco_version(output) ==
    OrRawOutput(
      Dict(<< <<"Model", Stripped(SearchBetween(output, <<"C", "i", "s", "c", "o", " ">>, <<" ", "S", "o", "f", "t", "w", "a", "r", "e">>))>>,
              <<"IOS_Version", SearchAfterBlanks(output, <<"V", "e", "r", "s", "i", "o", "n">>, DigitsDot)>>,
              <<"Uptime", Stripped(SearchRestOfLine(output, <<"u", "p", "t", "i", "m", "e", " ", "i", "s", " ">>))>>,
              <<"Serial", SearchAfterColon(output, <<"S", "e", "r", "i", "a", "l", " ", "N", "u", "m", "b", "e", "r">>, UpperAlnum)>> >>),
      output)

\* OutputParser._parse_cisco_bgp
parse_cisco_bgp(output) ==
    LET lines == Split(output, "\n")
        Id(line) ==
            IF Contains(line, <<"B", "G", "P", " ", "r", "o", "u", "t", "e", "r", " ", "i", "d", "e", "n", "t", "i", "f", "i", "e", "r">>)
            THEN SearchBefore(line, DigitsDot, ",")
            ELSE NoMatch
        IsNeighbor(line) ==
            /\ Contains(lower(line), <<"n", "e", "i", "g", "h", "b", "o", "r">>)
            /\ Contains(lower(line), <<"u", "p">>) \/ Contains(lower(line), <<"d", "o", "w", "n">>)
    IN  OrRawOutput(
          Dict(<< <<"Router_ID",
                    LastAssigned([i \in 1..Len(lines) |-> Id(lines[i])])>>,
                  <<"BGP_Neighbors",
                    Counted(Cardinality({i \in 1..Len(lines) :
                                           IsNeighbor(lines[i])}))>> >>),
          output)

\* OutputParser._parse_arista_version
parse_arista_version(output) ==
    LET lines == Split(output, "\n")
        phrases == <<<<"M", "o", "d", "e", "l", ":">>, <<"S", "y", "s", "t", "e", "m", " ", "u", "p", "t", "i", "m", "e", ":">>, <<"S", "o", "f", "t", "w", "a", "r", "e", " ", "i", "m", "a", "g", "e", " ", "v", "e", "r", "s", "i", "o", "n", ":">>, <<"S", "e", "r", "i", "a", "l", " ", "n", "u", "m", "b", "e", "r", ":">>>>
    IN  OrRawOutput(
          Dict(<< <<"Model", BranchField(lines, phrases, 1)>>,
                  <<"Uptime", BranchField(lines, phrases, 2)>>,
                  <<"EOS_Version", BranchField(lines, phrases, 3)>>,
                  <<"Serial", BranchField(lines, phrases, 4)>> >>),
          output)

\* OutputParser._parse_arista_bgp
parse_arista_bgp(output) ==
    LET lines == Split(output, "\n")
        As(line) ==
            IF Contains(line, <<"B", "G", "P", " ", "s", "u", "m", "m", "a", "r", "y">>)
            THEN SearchAfter(line, <<"A", "S", " ">>, Digits)
            ELSE NoMatch
    IN  OrRawOutput(
          Dict(<< <<"AS_Number",
                    LastAssigned([i \in 1..Len(lines) |-> As(lines[i])])>>,
                  <<"BGP_Neighbors", Counted(Cardinality(IPv4Lines(lines)))>> >>),
          output)

\* OutputParser._parse_juniper_version
parse_juniper_version(output) ==
    LET lines == Split(output, "\n")
        phrases == <<<<"M", "o", "d", "e", "l", ":">>, <<"J", "U", "N", "O", "S", " ", "S", "o", "f", "t", "w", "a", "r", "e", " ", "R", "e", "l", "e", "a", "s", "e">>, <<"S", "e", "r", "i", "a", "l", " ", "I", "D", ":">>>>
        Rel(line) ==
            IF Branch(line, phrases) = 2
            THEN SearchAfterBlanks(line, <<"R", "e", "l", "e", "a", "s", "e">>, DigitsDot)
            ELSE NoMatch
    IN  OrRawOutput(
          Dict(<< <<"Model", BranchField(lines, phrases, 1)>>,
                  <<"JUNOS_Version",
                    LastAssigned([i \in 1..Len(lines) |-> Rel(lines[i])])>>,
                  <<"Serial", BranchField(lines, phrases, 3)>> >>),
          output)

\* OutputParser._parse_juniper_bgp
parse_juniper_bgp(output) ==
    LET lines == Split(output, "\n")
        phrases == <<<<"R", "o", "u", "t", "e", "r", " ", "I", "D", ":">>, <<"L", "o", "c", "a", "l", " ", "A", "S", ":">>>>
    IN  OrRawOutput(
          Dict(<< <<"Router_ID", BranchField(lines, phrases, 1)>>,
                  <<"AS_Number", BranchField(lines, phrases, 2)>> >>),
          output)

\* OutputParser._parse_sonic_version
parse_sonic_version(output) ==
    LET lines == Split(output, "\n")
        phrases == <<<<"P", "l", "a", "t", "f", "o", "r", "m", ":">>, <<"S", "O", "N", "i", "C", " ", "S", "o", "f", "t", "w", "a", "r", "e", " ", "V", "e", "r", "s", "i", "o", "n", ":">>, <<"S", "y", "s", "t", "e", "m", " ", "u", "p", "t", "i", "m", "e", ":">>>>
    IN  OrRawOutput(
          Dict(<< <<"Platform", BranchField(lines, phrases, 1)>>,
                  <<"Sonic_Version", BranchField(lines, phrases, 2)>>,
                  <<"Uptime", BranchField(lines, phrases, 3)>> >>),
          output)

\* OutputParser._parse_sonic_bgp
parse_sonic_bgp(output) ==
    LET lines == Split(output, "\n")
    IN  OrRawOutput(
          Dict(<< <<"BGP_Neighbors", Counted(Cardinality(IPv4Lines(lines)))>> >>),
          output)

\* OutputParser.parse_show_version
parse_show_version(output, os_type) ==
    CASE os_type = cisco_ios -> parse_cisco_version(output)
      [] os_type = arista_eos -> parse_arista_version(output)
      [] os_type = juniper_junos -> parse_juniper_version(output)
      [] os_type = sonic_cli -> parse_sonic_version(output)
      [] OTHER -> [raw_output |-> output]

\* OutputParser.parse_bgp_summary
parse_bgp_summary(output, os_type) ==
    CASE os_type = cisco_ios -> parse_cisco_bgp(output)
      [] os_type = arista_eos -> parse_arista_bgp(output)
      [] os_type = juniper_junos -> parse_juniper_bgp(output)
      [] os_type = sonic_cli -> parse_sonic_bgp(output)
      [] OTHER -> [raw_output |-> output]

\* ------------------------------------------- constructor and parser calls

\* Raw OS strings a runner can be constructed with: the values of the device
\* database, in any case and with blanks, and the empty string.
ConstructorOsStrings ==
    RawOsStrings
    \cup {<<>>, <<" ", " ">>, <<"O", "S">>, <<"L", "i", "n", "u", "x">>, <<"N", "X", "-", "O", "S">>, <<"C", "i", "s", "c", "o", "-", "N", "X", "O", "S">>,
          <<"i", "o", "s", "-", "x", "e">>, <<"S", "o", "n", "i", "c">>, <<"A", "r", "i", "s", "t", "a", " ", "E", "O", "S", " ", "4", ".", "2">>}

\* The OS types the parsers are called with: the four vendor tags and the
\* tags _normalize_os_type gives the strings outside its table.
ParserOsTypes ==
    {cisco_ios, arista_eos, juniper_junos, sonic_cli, <<"u", "n", "k", "n", "o", "w", "n">>, <<"l", "i", "n", "u", "x">>}

\* A device output longer than the 500 characters of the raw-text fallback.
LongOutput == [i \in 1..501 |-> IF i % 40 = 0 THEN "\n" ELSE "x"]

\* Device outputs the parsers are called with.
ParserOutputs ==
    {<<>>,
     <<"%", " ", "I", "n", "v", "a", "l", "i", "d", " ", "i", "n", "p", "u", "t", " ", "d", "e", "t", "e", "c", "t", "e", "d">>,
     <<"C", "i", "s", "c", "o", " ", "I", "O", "S", " ", "S", "o", "f", "t", "w", "a", "r", "e", ",", " ", "V", "e", "r", "s", "i", "o", "n", " ", "1", "5", ".", "2", "\n", "R", "1", " ", "u", "p", "t", "i", "m", "e", " ", "i", "s", " ", "3", " ", "d", "a", "y", "s", "\n", "S", "e", "r", "i", "a", "l", " ", "N", "u", "m", "b", "e", "r", " ", ":", " ", "F", "O", "C", "1", "2", "3">>,
     <<"M", "o", "d", "e", "l", ":", " ", "D", "C", "S", "-", "7", "0", "5", "0", "\n", "S", "o", "f", "t", "w", "a", "r", "e", " ", "i", "m", "a", "g", "e", " ", "v", "e", "r", "s", "i", "o", "n", ":", " ", "4", ".", "2", "0", ".", "1", "\n", "S", "e", "r", "i", "a", "l", " ", "n", "u", "m", "b", "e", "r", ":", " ", "J", "P", "E", "1", "\n", "S", "y", "s", "t", "e", "m", " ", "u", "p", "t", "i", "m", "e", ":", " ", "2", " ", "w", "e", "e", "k", "s">>,
     <<"M", "o", "d", "e", "l", ":", " ", "m", "x", "4", "8", "0", "\n", "J", "U", "N", "O", "S", " ", "S", "o", "f", "t", "w", "a", "r", "e", " ", "R", "e", "l", "e", "a", "s", "e", " ", "[", "1", "8", ".", "4", "R", "1", "]", "\n", "S", "e", "r", "i", "a", "l", " ", "I", "D", ":", " ", "A", "B", "1", "2">>,
     <<"S", "O", "N", "i", "C", " ", "S", "o", "f", "t", "w", "a", "r", "e", " ", "V", "e", "r", "s", "i", "o", "n", ":", " ", "S", "O", "N", "i", "C", ".", "2", "0", "2", "1", "\n", "P", "l", "a", "t", "f", "o", "r", "m", ":", " ", "x", "8", "6", "_", "6", "4">>,
     <<"B", "G", "P", " ", "r", "o", "u", "t", "e", "r", " ", "i", "d", "e", "n", "t", "i", "f", "i", "e", "r", " ", "1", "0", ".", "0", ".", "0", ".", "1", ",", " ", "l", "o", "c", "a", "l", " ", "A", "S", " ", "n", "u", "m", "b", "e", "r", " ", "6", "5", "0", "0", "0", "\n", "N", "e", "i", "g", "h", "b", "o", "r", " ", "V", " ", "A", "S", " ", "U", "p", "/", "D", "o", "w", "n", "\n", "1", "0", ".", "0", ".", "0", ".", "2", " ", "4", " ", "6", "5", "0", "0", "1", " ", "1", "d", "\n", "1", "0", ".", "0", ".", "0", ".", "3", " ", "4", " ", "6", "5", "0", "0", "2", " ", "n", "e", "v", "e", "r">>,
     <<"B", "G", "P", " ", "s", "u", "m", "m", "a", "r", "y", " ", "i", "n", "f", "o", "r", "m", "a", "t", "i", "o", "n", " ", "f", "o", "r", " ", "V", "R", "F", " ", "d", "e", "f", "a", "u", "l", "t", ",", " ", "A", "S", " ", "6", "5", "0", "0", "0", "\n", " ", " ", "1", "0", ".", "0", ".", "0", ".", "2", " ", "4", " ", "6", "5", "0", "0", "1", " ", "E", "s", "t", "a", "b", "\n", "1", "0", ".", "0", ".", "0", " ", "4", " ", "6", "5", "0", "0", "1", " ", "I", "d", "l", "e">>,
     <<"R", "o", "u", "t", "e", "r", " ", "I", "D", ":", " ", "1", ".", "1", ".", "1", ".", "1", "\n", "L", "o", "c", "a", "l", " ", "A", "S", ":", " ", "6", "5", "0", "0", "0", "\n", "1", "0", ".", "0", ".", "0", ".", "2", " ", "6", "5", "0", "0", "1", " ", "E", "s", "t", "a", "b", "l">>,
     <<"n", "e", "i", "g", "h", "b", "o", "r", " ", "1", "0", ".", "0", ".", "0", ".", "2", " ", "i", "s", " ", "d", "o", "w", "n", "\n">>,
     LongOutput}

NoCall ==
    [fn |-> "none", raw |-> <<>>, given |-> <<>>, device_os |-> <<>>,
     usernames |-> <<>>, output |-> <<>>, os_type |-> <<>>, data |-> <<>>]

\* DeviceCommandRunner.__init__(raw, usernames = given): the normalized tag
\* and the candidate list of the new runner.
NewRunner(raw, given) ==
    /\ fn_call' = [NoCall EXCEPT
                     !.fn = "__init__", !.raw = raw, !.given = given,
                     !.device_os = normalize_os_type(raw),
                     !.usernames = IF given # <<>> THEN given
                                   ELSE build_username_list(normalize_os_type(raw))]
    /\ UNCHANGED <<conn_vars, runner_vars, jb_vars, sh_vars, main_vars>>

\* OutputParser.parse_show_version(output, os_type)
ParseShowVersion(output, os_type) ==
    /\ fn_call' = [NoCall EXCEPT
                     !.fn = "parse_show_version", !.output = output,
                     !.os_type = os_type,
                     !.data = parse_show_version(output, os_type)]
    /\ UNCHANGED <<conn_vars, runner_vars, jb_vars, sh_vars, main_vars>>

\* OutputParser.parse_bgp_summary(output, os_type)
ParseBgpSummary(output, os_type) ==
    /\ fn_call' = [NoCall EXCEPT
                     !.fn = "parse_bgp_summary", !.output = output,
                     !.os_type = os_type,
                     !.data = parse_bgp_summary(output, os_type)]
    /\ UNCHANGED <<conn_vars, runner_vars, jb_vars, sh_vars, main_vars>>

\* ------------------------------------------------------------------ main.py

\* The sentinel get_device_header_info returns for a missing management IP.
NoMgmtIp == "N/A"

\* What the query of get_device_header_info finds for the device: a row with
\* some mgmt_ip column (null, empty or an address), no row, or an exception.
HeaderLookups ==
    {[kind |-> "row", mgmt_ip |-> ip] : ip \in {None, "", "10.24.1.7"}}
    \cup {[kind |-> "no_row", mgmt_ip |-> None],
          [kind |-> "error", mgmt_ip |-> None]}

\* main's device_info_result while it is None: no field has a value.
NoDeviceInfo == [mgmt_ip |-> None]

\* TitanQueries.get_device_header_info: the mgmt_ip of the dict it returns.
get_device_header_info(lookup) ==
    IF lookup.kind = "row"
    THEN [mgmt_ip |-> IF lookup.mgmt_ip \in {None, ""} THEN NoMgmtIp
                      ELSE lookup.mgmt_ip]
    ELSE [mgmt_ip |-> NoMgmtIp]

\* main, lines 31-53: a device is entered and its header info is fetched.
MainSelectDevice(lookup) ==
    /\ main_pc = "prompt"
    /\ device_info_result' = get_device_header_info(lookup)
    /\ main_pc' = "menu"
    /\ UNCHANGED <<main_printed, conn_vars, runner_vars, jb_vars, sh_vars,
                   fn_vars>>

\* main, lines 120-124: option 12 forgets the current device.
MainChangeDevice ==
    /\ main_pc = "menu"
    /\ device_info_result' = NoDeviceInfo
    /\ main_pc' = "prompt"
    /\ UNCHANGED <<main_printed, conn_vars, runner_vars, jb_vars, sh_vars,
                   fn_vars>>

\* main, lines 134-156: option 14 prints the target when there is a
\* management IP, constructs a jumpbox and calls its connect().
MainOption14 ==
    /\ main_pc = "menu"
    /\ main_printed' =
         (IF device_info_result.mgmt_ip # NoMgmtIp THEN <<"target">>
          ELSE <<>>) \o <<"connecting">>
    /\ jb_ssh_client' = None
    /\ jb_connected' = FALSE
    /\ jb_current_host' = NoHost
    /\ jb_replaced' = {}
    /\ jb_result' = NoJbResult
    /\ sh_ret' = "none"
    /\ jb_calls' = 1
    /\ jb_hosts' = hosts_to_try(jb_config)
    /\ jb_idx' = 1
    /\ jb_tried' = <<>>
    /\ jb_ret' = [op |-> "none", success |-> FALSE]
    /\ jb_pc' = "connect_loop"
    /\ main_pc' = "connect"
    /\ UNCHANGED <<jb_password, jb_home, jb_config, channel, stop_flag, rd_pc,
                   in_pc, stdin_eof, sh_exit_read, sh_eof_read, sh_line,
                   device_info_result, conn_vars, runner_vars, fn_vars>>

\* main, lines 156-168: connect() has returned; a failure is printed and the
\* menu comes back, a success is announced and the shell is about to start.
MainConnectReturned ==
    /\ main_pc = "connect"
    /\ jb_pc = "idle"
    /\ IF jb_ret.success
       THEN /\ main_printed' =
                 Append(main_printed, "established")
                 \o (IF device_info_result.mgmt_ip # NoMgmtIp
                     THEN <<"howto">> ELSE <<>>)
            /\ main_pc' = "shell"
       ELSE /\ main_printed' = Append(main_printed, "failed")
            /\ main_pc' = "menu"
    /\ UNCHANGED <<device_info_result, conn_vars, runner_vars, jb_vars,
                   sh_vars, fn_vars>>

\* main, line 170: jumpbox.start_interactive_shell() is called.
MainStartShell ==
    /\ main_pc = "shell"
    /\ sh_ret = "none"
    /\ StartInteractiveShell

\* main, line 172: the shell has returned and jumpbox.disconnect() is called.
MainDisconnect ==
    /\ main_pc = "shell"
    /\ sh_ret # "none"
    /\ jb_ret.op # "disconnect"
    /\ NREJumpboxDisconnect

\* main, line 173: the session is reported closed and the menu comes back.
MainSessionClosed ==
    /\ main_pc = "shell"
    /\ jb_ret.op = "disconnect"
    /\ main_printed' = Append(main_printed, "closed")
    /\ main_pc' = "menu"
    /\ UNCHANGED <<device_info_result, conn_vars, runner_vars, jb_vars,
                   sh_vars, fn_vars>>

\* --------------------------------------------------------- specifications

\* SSHConnection.__init__ with some bastion id.
InitConnection ==
    /\ bastion_id \in BastionIds
    /\ bm_connected = FALSE
    /\ connected = FALSE
    /\ ssh_client = None
    /\ conn_op = NoConnOp
    /\ bm_op = NoBmOp
    /\ fn_call = NoCall

\* DeviceCommandRunner.__init__ with some raw OS string and username list.
InitRunner ==
    /\ \E raw \in RawOsStrings : device_os = normalize_os_type(raw)
    /\ \E explicit \in ExplicitUsernames :
         usernames = IF explicit # <<>> THEN explicit
                     ELSE build_username_list(device_os)
    /\ current_username = None
    /\ authenticated = FALSE
    /\ failed_usernames = <<>>
    /\ pc = "idle"
    /\ rc_alias = "version"
    /\ rc_idx = 1
    /\ caller = "top"
    /\ custom_cmd = ""
    /\ attempts = <<>>
    /\ last_result = NoResult
    /\ entry = NoEntry
    /\ ret = NoRet
    /\ calls = 0

\* NREJumpbox.__init__ with some password, configuration and home directory.
InitJumpbox ==
    /\ jb_password \in JbPasswords
    /\ jb_home \in HomeDirs
    /\ jb_config \in JbConfigs
    /\ jb_ssh_client = None
    /\ jb_connected = FALSE
    /\ jb_current_host = NoHost
    /\ jb_tried = <<>>
    /\ jb_ret = [op |-> "none", success |-> FALSE]
    /\ jb_calls = 0
    /\ jb_pc = "idle"
    /\ jb_hosts = <<>>
    /\ jb_idx = 1
    /\ jb_result = NoJbResult
    /\ jb_replaced = {}

\* No relay has been started.
InitShell ==
    /\ channel = None
    /\ stop_flag = FALSE
    /\ rd_pc = "none"
    /\ in_pc = "none"
    /\ stdin_eof = FALSE
    /\ sh_exit_read = FALSE
    /\ sh_eof_read = FALSE
    /\ sh_ret = "none"
    /\ sh_line = NoLine

\* main has not asked for a device yet.
InitMain ==
    /\ device_info_result = NoDeviceInfo
    /\ main_pc = "prompt"
    /\ main_printed = <<>>

\* One jumpbox, for the specification of the runner.
OneJumpbox ==
    /\ InitJumpbox
    /\ InitShell
    /\ InitMain
    /\ jb_password = "secret"
    /\ jb_home = [k \in Range(key_names) |-> "absent"]
    /\ jb_config.primary_host = <<"o", "s", "e", "r", "5", "0", "0", "5", "2", "1">>

\* One connection and runner, for the specification of the jumpbox.
OneRunner ==
    /\ InitConnection
    /\ InitRunner
    /\ bastion_id = "nre_traditional"
    /\ device_os = cisco_ios
    /\ usernames = build_username_list(cisco_ios)

\* The device command runner over its SSH connection.
Init == InitConnection /\ InitRunner /\ OneJumpbox

Next ==
    \/ ConnectToJumphost
    \/ Disconnect
    \/ \E alias \in Aliases : RunCommandCall(alias)
    \/ RunCommandAttempt
    \/ \E command \in CustomCommands : RunCustomCommandCall(command)
    \/ RunCustomCommandExecute

Spec == Init /\ [][Next]_vars

\* The jumpbox session handler.
InitJb == OneRunner /\ InitJumpbox /\ InitShell /\ InitMain

NextJb ==
    \/ NREJumpboxConnect
    \/ NREJumpboxTryHost
    \/ NREJumpboxDisconnect

SpecJumpbox == InitJb /\ [][NextJb]_vars

\* The three connectors, each driven by a session of its own: the SSH
\* connection with its bastion manager, or the jumpbox.
InitConnectors ==
    /\ InitConnection
    /\ InitRunner
    /\ device_os = cisco_ios
    /\ usernames = build_username_list(cisco_ios)
    /\ OneJumpbox

\* The jumpbox has not been used.
JumpboxUntouched ==
    jb_calls = 0 /\ jb_ret.op = "none" /\ jb_result = NoJbResult

\* Neither the SSH connection nor its bastion manager has been used.
ConnectionUntouched == conn_op = NoConnOp /\ bm_op = NoBmOp

NextConnectors ==
    \/ JumpboxUntouched /\ ConnectToJumphost
    \/ JumpboxUntouched /\ SSHExecute
    \/ JumpboxUntouched /\ Disconnect
    \/ JumpboxUntouched /\ BastionConnect
    \/ JumpboxUntouched /\ BastionExecute
    \/ JumpboxUntouched /\ BastionDisconnect
    \/ ConnectionUntouched /\ NREJumpboxConnect
    \/ ConnectionUntouched /\ NREJumpboxTryHost
    \/ ConnectionUntouched /\ NREJumpboxExecute
    \/ ConnectionUntouched /\ NREJumpboxDisconnect

SpecConnectors == InitConnectors /\ [][NextConnectors]_vars

\* The interactive relay of a jumpbox session.
InitRelay == OneRunner /\ OneJumpbox

NextRelay ==
    \/ NREJumpboxConnect
    \/ NREJumpboxTryHost
    \/ NREJumpboxDisconnect
    \/ StartInteractiveShell
    \/ RemoteLoopTest
    \/ RemoteRecv
    \/ StdinLoopTest
    \/ StdinReadLine
    \/ StdinReadEOF
    \/ StdinCloses
    \/ RemoteCloses
    \/ ShellJoinStdin
    \/ ShellJoinReader

\* The two threads and the waiting caller are scheduled; the user and the
\* remote side are not obliged to act.
FairRelay ==
    /\ WF_vars(RemoteLoopTest)
    /\ WF_vars(RemoteRecv)
    /\ WF_vars(StdinLoopTest)
    /\ WF_vars(StdinReadEOF)
    /\ WF_vars(ShellJoinStdin)
    /\ WF_vars(ShellJoinReader)

SpecRelay == InitRelay /\ [][NextRelay]_vars /\ FairRelay

\* Runners constructed, and parsers called, beside one idle runner.
InitCalls == OneRunner /\ OneJumpbox

NextCalls ==
    \/ \E raw \in ConstructorOsStrings, given \in ExplicitUsernames :
         NewRunner(raw, given)
    \/ \E output \in ParserOutputs, os_type \in ParserOsTypes :
         ParseShowVersion(output, os_type)
    \/ \E output \in ParserOutputs, os_type \in ParserOsTypes :
         ParseBgpSummary(output, os_type)

SpecCalls == InitCalls /\ [][NextCalls]_vars

\* The menu loop of main with its jumpbox option.
InitMenu == OneRunner /\ OneJumpbox

NextMenu ==
    \/ \E lookup \in HeaderLookups : MainSelectDevice(lookup)
    \/ MainChangeDevice
    \/ MainOption14
    \/ main_pc = "connect" /\ NREJumpboxTryHost
    \/ MainConnectReturned
    \/ MainStartShell
    \/ RemoteLoopTest
    \/ RemoteRecv
    \/ StdinLoopTest
    \/ StdinReadLine
    \/ StdinReadEOF
    \/ StdinCloses
    \/ RemoteCloses
    \/ ShellJoinStdin
    \/ ShellJoinReader
    \/ MainDisconnect
    \/ MainSessionClosed

SpecMenu == InitMenu /\ [][NextMenu]_vars

\* ------------------------------------------------- claims about the runner

\* The last execute call of the current top-level call.
LastAttempt == attempts[Len(attempts)]

\* C1: inside run_command the execute attempts are issued one at a time, the
\* n-th under the n-th entry of the candidate list and with the alias's
\* command, and no attempt follows an accepted one.
C1_AttemptsFollowListOrder ==
    [][pc = "rc_loop" =>
         LET n == Len(attempts')
         IN  /\ n = Len(attempts) + 1
             /\ n <= Len(usernames)
             /\ SubSeq(attempts', 1, n - 1) = attempts
             /\ \A i \in 1..n :
                  /\ attempts'[i].user = usernames[i]
                  /\ attempts'[i].command =
                       get_available_commands(device_os)[rc_alias]
             /\ \A i \in 1..(n - 1) : attempts'[i].verdict = "rejected"
             /\ (attempts'[n].verdict = "accepted" => pc' # "rc_loop")]_vars

\* C1 witness: run_command returned after the second candidate was accepted,
\* with candidates left untried.
C1_Witness ==
    /\ pc = "idle"
    /\ entry.op = "run_command"
    /\ ret.success
    /\ Len(attempts) = 2
    /\ LastAttempt.verdict = "accepted"
    /\ Len(usernames) > 2

\* C2 (as claimed): a run_command begun after a username was accepted issues
\* its command once, under the cached current_username, and tries no other
\* candidate.
C2_LaterCallsUseCachedUsername ==
    (entry.op = "run_command" /\ entry.authenticated) =>
        /\ Len(attempts) <= 1
        /\ \A i \in 1..Len(attempts) : attempts[i].user = entry.current_username

\* C3: on a fresh runner, when run_command returns success after k attempts,
\* current_username is the k-th candidate, the first k-1 candidates were
\* rejected and failed_usernames holds exactly them, in list order.
C3_FirstAcceptedIsCurrent ==
    (calls = 1 /\ entry.op = "run_command" /\ pc = "idle" /\ ret.success) =>
        LET k == Len(attempts)
        IN  /\ k >= 1
            /\ LastAttempt.verdict = "accepted"
            /\ \A i \in 1..(k - 1) : attempts[i].verdict = "rejected"
            /\ current_username = usernames[k]
            /\ authenticated
            /\ failed_usernames = SubSeq(usernames, 1, k - 1)

\* C3 witness: candidates admin, netadmin, neteng with only neteng accepted.
C3_Witness ==
    /\ calls = 1
    /\ entry.op = "run_command"
    /\ pc = "idle"
    /\ ret.success
    /\ usernames = <<"admin", "netadmin", "neteng">>
    /\ current_username = "neteng"
    /\ failed_usernames = <<"admin", "netadmin">>

\* C4 (as claimed): every authentication failure that run_command returns
\* reports as many tried usernames as the candidate list has entries.
C4_TriedCountIsListLength ==
    ret.kind = "auth_failed" => ret.msg.tried = Len(usernames)

\* C5 (as claimed): an attempt is accepted exactly when execute reported
\* success and the output does not contain "permission denied" in any case.
C5_AcceptedIffSuccessWithoutPhrase ==
    (attempts # <<>> /\ LastAttempt.verdict # "none") =>
        (LastAttempt.verdict = "accepted"
           <=> /\ last_result.success
               /\ ~Contains(lower(last_result.output), PermissionDeniedPhrase))

\* C5 (amended): an attempt is accepted exactly when execute reported
\* success, the output is not empty and the output does not contain
\* "permission denied" in any case.
C5_AcceptedIffSuccessNonEmptyWithoutPhrase ==
    (attempts # <<>> /\ LastAttempt.verdict # "none") =>
        (LastAttempt.verdict = "accepted"
           <=> /\ last_result.success
               /\ last_result.output # <<>>
               /\ ~Contains(lower(last_result.output), PermissionDeniedPhrase))

\* C5 witness: a successful execute with empty output was rejected.
C5_Witness ==
    /\ attempts # <<>>
    /\ LastAttempt.verdict = "rejected"
    /\ last_result.success
    /\ last_result.output = <<>>

\* C6: a run_command whose alias is absent from the command table of the
\* runner's OS returns the unsupported-command failure in that step, with no
\* execute call, and leaves current_username, authenticated and
\* failed_usernames as they were.
C6_UnsupportedAliasIssuesNothing ==
    [][(/\ calls' = calls + 1
        /\ entry'.op = "run_command"
        /\ entry'.arg \notin DOMAIN get_available_commands(device_os))
       => /\ pc' = "idle"
          /\ ret'.op = "run_command"
          /\ ret'.kind = "unsupported"
          /\ ~ret'.success
          /\ attempts' = <<>>
          /\ current_username' = current_username
          /\ authenticated' = authenticated
          /\ failed_usernames' = failed_usernames]_vars

\* C6 witness: an unsupported alias on a runner that has an accepted
\* username and recorded failures.
C6_Witness ==
    /\ pc = "idle"
    /\ ret.kind = "unsupported"
    /\ attempts = <<>>
    /\ authenticated
    /\ failed_usernames # <<>>

\* C7: run_custom_command with no username established runs the "version"
\* alias through the rotation before anything else; when that establishes no
\* username it returns failure and the literal command is never executed;
\* otherwise, and whenever a username was established at entry, the literal
\* command is executed exactly once, last, under current_username.
C7_CustomCommandProbeThenLiteral ==
    entry.op = "run_custom_command" =>
        LET n == Len(attempts)
            established == entry.authenticated \/ entry.current_username # None
            literal == pc = "idle" /\ ret.kind = "custom_output"
            probes == IF literal THEN SubSeq(attempts, 1, n - 1) ELSE attempts
        IN  /\ pc = "idle" => ret.kind \in {"custom_output", "custom_auth_failed"}
            /\ established => (literal /\ n = 1)
            /\ \A i \in 1..Len(probes) :
                 /\ probes[i].verdict # "none"
                 /\ probes[i].user = usernames[i]
                 /\ probes[i].command = get_available_commands(device_os).version
                 /\ probes[i].verdict = "accepted" => i = Len(probes)
            /\ (pc = "idle" /\ ret.kind = "custom_auth_failed") =>
                 /\ ~ret.success
                 /\ current_username = None
                 /\ \A i \in 1..n : attempts[i].verdict = "rejected"
            /\ literal =>
                 /\ n >= 1
                 /\ attempts[n] = [user |-> current_username,
                                   command |-> entry.arg, verdict |-> "none"]
                 /\ current_username # None
                 /\ ~established =>
                      /\ n >= 2
                      /\ attempts[n - 1].verdict = "accepted"
                      /\ attempts[n - 1].user = current_username

\* C7 witness: a fresh runner whose probe was accepted on the second
\* candidate and that then ran the literal command.
C7_Witness ==
    /\ entry.op = "run_custom_command"
    /\ ~entry.authenticated
    /\ pc = "idle"
    /\ ret.kind = "custom_output"
    /\ Len(attempts) = 3
    /\ attempts[2].verdict = "accepted"
    /\ attempts[3].user = attempts[2].user

\* ------------------------------------------------ claims about the jumpbox

\* C8: connect tries the primary host and then the fallback host; no host is
\* tried after one succeeded; a connect that returns true leaves
\* current_host naming the host that succeeded and connected set, and a
\* connect returns false only after both hosts failed.
C8_PrimaryThenFallback ==
    LET hosts == <<lower(jb_config.primary_host), lower(jb_config.fallback_host)>>
        n == Len(jb_tried)
    IN  /\ n <= 2
        /\ \A i \in 1..n : jb_tried[i].host = hosts[i]
        /\ \A i \in 1..(n - 1) : ~jb_tried[i].ok
        /\ jb_pc = "connect_loop" => (n < 2 /\ \A i \in 1..n : ~jb_tried[i].ok)
        /\ jb_ret.op = "connect" =>
             /\ n >= 1
             /\ jb_ret.success = jb_tried[n].ok
             /\ jb_ret.success => (jb_connected /\ jb_current_host = jb_tried[n].host)
             /\ ~jb_ret.success => n = 2

\* C8 witness: the primary host timed out, the fallback host authenticated
\* and connect returned true for the fallback host.
C8_Witness ==
    /\ jb_ret.op = "connect"
    /\ jb_ret.success
    /\ Len(jb_tried) = 2
    /\ \E j \in 1..Len(jb_tried[1].auth) : jb_tried[1].auth[j].outcome = "timeout"
    /\ jb_current_host = lower(jb_config.fallback_host)
    /\ jb_current_host # lower(jb_config.primary_host)

\* C9: on each host, with private keys present the key-based attempt comes
\* first and a password attempt follows only an authentication failure of
\* the key attempt and only when a password was supplied; without keys the
\* password attempt is the only one; without a password no password attempt
\* is made.
C9_KeyThenPassword ==
    \A i \in 1..Len(jb_tried) :
        LET a == jb_tried[i].auth
            used(m) == {j \in 1..Len(a) : a[j].method = m}
        IN  /\ Len(a) <= 2
            /\ IF find_ssh_keys(jb_home) # <<>>
               THEN /\ a # <<>>
                    /\ a[1].method = "key"
                    /\ used("key") = {1}
                    /\ used("password") # {} =>
                         (a[1].outcome = "auth" /\ jb_password # "")
               ELSE /\ used("key") = {}
                    /\ jb_password # "" => (Len(a) = 1 /\ a[1].method = "password")
            /\ jb_password = "" => used("password") = {}
            /\ jb_tried[i].ok = (a # <<>> /\ a[Len(a)].outcome = "ok")

\* C9 witness: a host whose key attempt was rejected and whose password
\* attempt then succeeded.
C9_Witness ==
    \E i \in 1..Len(jb_tried) :
        /\ Len(jb_tried[i].auth) = 2
        /\ jb_tried[i].auth[1] = [method |-> "key", outcome |-> "auth"]
        /\ jb_tried[i].auth[2] = [method |-> "password", outcome |-> "ok"]

\* C10: a key attempt that ends with a timeout, a DNS failure or another
\* non-authentication error is the only attempt on its host: the host fails
\* and connect goes on to the next host, or returns false after the last;
\* a second method on a host follows only an authentication failure.
C10_NonAuthErrorSkipsPassword ==
    \A i \in 1..Len(jb_tried) :
        LET a == jb_tried[i].auth
        IN  /\ (a # <<>> /\ a[1].method = "key"
                  /\ a[1].outcome \in {"timeout", "dns", "error"}) =>
               /\ Len(a) = 1
               /\ ~jb_tried[i].ok
               /\ i = 1 => \/ Len(jb_tried) = 2
                           \/ (jb_pc = "connect_loop" /\ jb_idx = 2)
               /\ i = 2 => (jb_pc = "idle" /\ (jb_ret.op = "connect" => ~jb_ret.success))
            /\ Len(a) >= 2 => a[1].outcome = "auth"

\* C10 witness: with a password supplied, the key attempt on the primary
\* host failed to resolve the name and the fallback host was tried next.
C10_Witness ==
    /\ jb_password # ""
    /\ Len(jb_tried) = 2
    /\ jb_tried[1].auth = <<[method |-> "key", outcome |-> "dns"]>>
    /\ jb_tried[2].ok

\* -------------------------------------------------- claims about the relay

\* C11: once the input loop has read a line that, trimmed, is exit, logout
\* or quit, the input loop has ended, and eventually the stop flag is set,
\* the reader loop has ended too, the channel is closed and the call has
\* returned true.
C11_ExitLineEndsRelay ==
    /\ [](sh_exit_read => in_pc = "done")
    /\ sh_exit_read ~> (/\ stop_flag
                        /\ in_pc = "done"
                        /\ rd_pc = "done"
                        /\ channel = "closed"
                        /\ sh_ret = "true")

\* C11 witness: the relay returned true after an exit line, and the reader
\* has ended.
C11_Witness ==
    /\ sh_exit_read
    /\ stop_flag
    /\ rd_pc = "done"
    /\ channel = "closed"
    /\ sh_ret = "true"

\* C12 (as claimed): once the remote side has closed the channel of a
\* running relay, the call eventually returns without a further line of
\* input; stated for the sessions whose local input stays open, so that the
\* end-of-file case of C13 plays no part.
C12_RemoteCloseEndsRelay ==
    (channel = "remote_closed" /\ jb_pc = "sh_join_stdin")
        ~> (jb_pc # "sh_join_stdin" \/ stdin_eof)

\* C13 (as claimed): once the input loop has read end-of-file, the input
\* loop eventually ends, the stop flag is set and the call returns.
C13_LocalEofEndsRelay ==
    sh_eof_read ~> (in_pc = "done" /\ stop_flag /\ jb_pc = "idle")

\* --------------------------------------------- claims about the connectors

\* C14 (as claimed): after SSHConnection.disconnect the connection is not
\* connected, whatever path connected it.
C14_DisconnectClearsConnected ==
    conn_op.op = "disconnect" => ~connected

\* C15: after BastionManager.disconnect, and after NREJumpbox.disconnect,
\* called once or again, on an instance that connected or never did, the
\* call has returned and connected is false.
C15_DisconnectIdempotent ==
    /\ [][(bm_op' # bm_op /\ bm_op'.op = "disconnect") =>
             (bm_op'.ok /\ ~bm_connected')]_vars
    /\ [](jb_ret.op = "disconnect" => (jb_ret.success /\ ~jb_connected))

\* C15 witness: a jumpbox that never connected was disconnected twice in a
\* row.
C15_Witness ==
    /\ jb_calls = 0
    /\ jb_ret.op = "disconnect"
    /\ jb_ret.times = 2
    /\ ~jb_connected

\* C16: an execute called on a connector that is not connected returns that
\* connector's not-connected failure, issues no command on a transport and
\* runs no subprocess, and leaves the connector's fields as they were.
C16_ExecuteNotConnected ==
    [][/\ (conn_op' # conn_op /\ conn_op'.op = "execute" /\ ~connected) =>
            /\ ~conn_op'.ok
            /\ conn_op'.output = NotConnectedMsg
            /\ ~conn_op'.issued
            /\ UNCHANGED <<bastion_id, bm_connected, connected, ssh_client>>
       /\ (bm_op' # bm_op /\ bm_op'.op = "execute" /\ ~bm_connected) =>
            /\ ~bm_op'.ok
            /\ bm_op'.output = BastionNotConnectedMsg
            /\ bm_op'.subprocs = <<>>
            /\ UNCHANGED <<bastion_id, bm_connected, connected, ssh_client>>
       /\ (jb_result' # jb_result /\ ~jb_connected) =>
            /\ ~jb_result'.success
            /\ jb_result'.output = JbNotConnectedMsg
            /\ ~jb_result'.issued
            /\ UNCHANGED <<jb_connected, jb_ssh_client, jb_current_host>>]_vars

\* C16 witness: an execute on an SSH connection that had been disconnected
\* returned the not-connected failure.
C16_Witness ==
    /\ conn_op.op = "execute"
    /\ conn_op.output = NotConnectedMsg
    /\ ssh_client = "closed"
    /\ ~connected

\* C17: a BastionManager.connect on a gcloud descriptor runs `gcloud
\* --version` first and `gcloud auth list` only after the first exited with
\* 0; it returns true, and sets connected, exactly when both exited with 0;
\* otherwise it returns false and leaves connected as it was; it never runs
\* the tunnel command.
C17_GcloudPreflightOrder ==
    [][(/\ bm_op' # bm_op
        /\ bm_op'.op = "connect"
        /\ BASTION_HOSTS_type(bastion_id) = BASTION_TYPE_GCLOUD) =>
          LET log == bm_op'.subprocs
          IN  /\ Len(log) \in {1, 2}
              /\ log[1].cmd = "gcloud --version"
              /\ Len(log) = 2 =>
                   (log[1].outcome = "zero" /\ log[2].cmd = "gcloud auth list")
              /\ log[1].outcome # "zero" => Len(log) = 1
              /\ bm_op'.ok <=> (Len(log) = 2 /\ log[2].outcome = "zero")
              /\ bm_op'.ok => bm_connected'
              /\ ~bm_op'.ok => bm_connected' = bm_connected
              /\ \A i \in 1..Len(log) : log[i].cmd # "gcloud compute ssh"]_vars

\* C17 witness: the identity check timed out on a manager that an earlier
\* connect had connected; connect returned false and connected is still set.
C17_Witness ==
    /\ bm_op.op = "connect"
    /\ ~bm_op.ok
    /\ Len(bm_op.subprocs) = 2
    /\ bm_op.subprocs[2].outcome = "timeout"
    /\ bm_connected

\* C18 (as claimed): when the bastion manager's connect has failed,
\* connect_to_jumphost returns failure and has dialled no host itself.
C18_NoFallbackDial ==
    (conn_op.op = "connect" /\ ~conn_op.bastion_ok) =>
        (~conn_op.ok /\ conn_op.dialed = <<>>)

\* C20: the value an execute returns for a timeout is a failure, and it
\* differs from the value the same execute returns for any failure that is
\* not a timeout, in any state of the connector: for
\* SSHConnection.execute_command_on_device, for the gcloud execute of
\* BastionManager and for NREJumpbox.execute_command.
C20_TimeoutDistinctFromError ==
    /\ conn_op.cause = "timeout" =>
         /\ ~conn_op.ok
         /\ \A c \in BOOLEAN, cl \in ClientStates, resp \in ExecOutcomes :
              LET r == execute_command_on_device(c, cl, resp)
              IN  (resp.kind # "timeout" /\ ~r.success) => r.output # conn_op.output
    /\ bm_op.cause = "timeout" =>
         /\ ~bm_op.ok
         /\ \A c \in BOOLEAN, resp \in GcloudOutcomes :
              LET r == execute_command_via_bastion(bastion_id, c, resp)
              IN  (resp.kind # "timeout" /\ ~r.success) => r.output # bm_op.output
    /\ jb_result.cause = "timeout" =>
         /\ ~jb_result.success
         /\ \A c \in BOOLEAN, cl \in ClientStates, resp \in JbExecOutcomes :
              LET r == jb_execute_command(c, cl, resp)
              IN  (resp.kind # "timeout" /\ ~r.success) => r.output # jb_result.output

\* C20 witness: the tunnel command of a connected gcloud bastion timed out.
C20_Witness ==
    /\ bm_op.op = "execute"
    /\ bm_op.cause = "timeout"
    /\ bm_op.output = GcloudTimeoutMsg
    /\ bm_connected

\* C19 (as claimed): within one run_command invocation no username is
\* attempted twice with the same command.
C19_NoUsernameTwice ==
    \A i, j \in 1..Len(attempts) :
        (i < j /\ attempts[i].verdict # "none" /\ attempts[j].verdict # "none")
            => ~(/\ attempts[i].user = attempts[j].user
                 /\ attempts[i].command = attempts[j].command)

\* ------------------------------------- claims about results and candidates

\* The error stream of a completed command counts as a failure.
IsFailureText(err) == err # <<>> /\ ~Contains(err, WarningWord)

\* C21: an execute_command_on_device, and an NREJumpbox.execute_command,
\* whose command completed returns failure with the error-stream text when
\* that text is non-empty and does not contain "Warning", and success with
\* the standard-output text in every other completed case; the jumpbox
\* returns either text trimmed.
C21_FailureIffErrorStream ==
    /\ (conn_op.op = "execute" /\ conn_op.cause = "done") =>
         /\ conn_op.ok <=> ~IsFailureText(conn_op.resp.err)
         /\ conn_op.output = IF IsFailureText(conn_op.resp.err)
                             THEN conn_op.resp.err ELSE conn_op.resp.out
    /\ jb_result.cause = "done" =>
         /\ jb_result.success <=> ~IsFailureText(jb_result.resp.err)
         /\ jb_result.output = IF IsFailureText(jb_result.resp.err)
                               THEN strip(jb_result.resp.err)
                               ELSE strip(jb_result.resp.out)

\* C21 witness: a command on the connection completed with an advisory on
\* its error stream and returned success with its standard output.
C21_Witness ==
    /\ conn_op.op = "execute"
    /\ conn_op.cause = "done"
    /\ Contains(conn_op.resp.err, WarningWord)
    /\ conn_op.ok
    /\ conn_op.output = conn_op.resp.out
    /\ conn_op.output # <<>>

\* C22 (as claimed): the candidate list of a runner has no entry twice.
C22_NoDuplicateCandidates ==
    \A i, j \in 1..Len(usernames) : i # j => usernames[i] # usernames[j]

\* The tag belongs to the Cisco family.
IsCiscoFamily(os) == Contains(lower(os), <<"c", "i", "s", "c", "o">>)

\* C23: the candidate list derived for a normalized tag is the tag's
\* OS-specific usernames, then the default usernames not among them, then,
\* for a Cisco-family tag only, the Cisco usernames not yet present; for
\* another tag no Cisco-only username appears.
C23_DerivedListOrder ==
    (fn_call.fn = "__init__" /\ fn_call.given = <<>>) =>
        LET os == fn_call.device_os
            specific == DEVICE_SPECIFIC_USERNAMES(os)
            NotSpecific(u) == u \notin Range(specific)
            NotEarlier(u) ==
                u \notin Range(specific) \cup Range(DEFAULT_USERNAMES)
            extras == SelectSeq(CISCO_IOS_USERNAMES, NotEarlier)
        IN  /\ fn_call.usernames =
                 specific \o SelectSeq(DEFAULT_USERNAMES, NotSpecific)
                          \o (IF IsCiscoFamily(os) THEN extras ELSE <<>>)
            /\ ~IsCiscoFamily(os) =>
                 Range(fn_call.usernames) \cap Range(extras) = {}

\* C23 witness: a runner for a Cisco-family tag that has no OS-specific
\* entry got the default usernames and then the Cisco-only ones.
C23_Witness ==
    /\ fn_call.fn = "__init__"
    /\ fn_call.given = <<>>
    /\ fn_call.device_os = <<"c", "i", "s", "c", "o", "-", "n", "x", "o", "s">>
    /\ fn_call.usernames[1] = DEFAULT_USERNAMES[1]
    /\ fn_call.usernames[Len(fn_call.usernames)] = "support"

\* C24: the candidate list is the explicit list or the one derived from the
\* tag; no step changes the tag or the list; a step changes failed_usernames
\* only by appending one candidate; and the rotating attempts of every
\* invocation follow the list from its first entry.
C24_CandidateListFixed ==
    /\ [](\/ usernames \in ExplicitUsernames \ {<<>>}
          \/ usernames = build_username_list(device_os))
    /\ [][/\ usernames' = usernames
          /\ device_os' = device_os
          /\ \/ failed_usernames' = failed_usernames
             \/ \E u \in Range(usernames) :
                  failed_usernames' = Append(failed_usernames, u)]_vars
    /\ [](\A i \in 1..Len(attempts) :
            attempts[i].verdict # "none" => attempts[i].user = usernames[i])

\* C24 witness: the second invocation on a runner rejected the first two
\* candidates, after the first invocation had rejected one.
C24_Witness ==
    /\ calls = 2
    /\ Len(attempts) = 2
    /\ attempts[1].user = usernames[1]
    /\ attempts[2].user = usernames[2]
    /\ attempts[2].verdict = "rejected"
    /\ Len(failed_usernames) = 3
    /\ failed_usernames[1] = usernames[1]

\* The table keys that the upper-cased, trimmed raw string equals or contains.
TableKeysIn(raw) ==
    {i \in 1..Len(OS_TYPES) :
       \/ OS_TYPES[i][1] = strip(upper(raw))
       \/ Contains(strip(upper(raw)), OS_TYPES[i][1])}

\* C25: for a raw OS string that equals or contains no key of the table, the
\* tag is non-empty, is lower-case, and is the one every application of
\* _normalize_os_type to that string gives.
C25_UnmatchedTagNonEmptyLowercase ==
    (fn_call.fn = "__init__" /\ TableKeysIn(fn_call.raw) = {}) =>
        /\ fn_call.device_os # <<>>
        /\ fn_call.device_os = lower(fn_call.device_os)
        /\ fn_call.device_os = normalize_os_type(fn_call.raw)

\* C25 witness: a runner constructed with 'Linux' has the tag 'linux'.
C25_Witness ==
    /\ fn_call.fn = "__init__"
    /\ fn_call.raw = <<"L", "i", "n", "u", "x">>
    /\ TableKeysIn(fn_call.raw) = {}
    /\ fn_call.device_os = <<"l", "i", "n", "u", "x">>

\* C26 (as claimed): the tag is the value of the first table key that the
\* upper-cased, trimmed raw string equals or contains, and for every other
\* raw string, the empty one included, the lower-cased trimmed string.
C26_VendorTagOnlyOnKeyMatch ==
    fn_call.fn = "__init__" =>
        fn_call.device_os =
            IF TableKeysIn(fn_call.raw) # {}
            THEN OS_TYPES[Min(TableKeysIn(fn_call.raw))][2]
            ELSE lower(strip(fn_call.raw))

\* C27 (as claimed): the tag of a runner is one of the four vendor tags or
\* "unknown".
C27_TagInEnumeration ==
    fn_call.fn = "__init__" =>
        fn_call.device_os \in
            {cisco_ios, arista_eos, juniper_junos, sonic_cli, <<"u", "n", "k", "n", "o", "w", "n">>}

\* C28 (as claimed): a parser returns a non-empty mapping; a mapping that
\* holds raw_output holds nothing else, and its text is the first 500
\* characters of the input at most; an empty input and an OS type outside
\* the four vendor tags give that mapping.
C28_RawOutputFallbackBounded ==
    fn_call.fn \in {"parse_show_version", "parse_bgp_summary"} =>
        /\ DOMAIN fn_call.data # {}
        /\ "raw_output" \in DOMAIN fn_call.data =>
             fn_call.data = [raw_output |-> Prefix(fn_call.output, 500)]
        /\ (\/ fn_call.output = <<>>
            \/ fn_call.os_type \notin SHOW_COMMANDS_KEYS) =>
             "raw_output" \in DOMAIN fn_call.data

\* C30 (as claimed): parse_bgp_summary for a vendor tag reports
\* BGP_Neighbors exactly when some input line begins, after blanks, with an
\* IPv4 address, and the value is the number of such lines.
C30_NeighborCountIsIPv4Lines ==
    (/\ fn_call.fn = "parse_bgp_summary"
     /\ fn_call.os_type \in SHOW_COMMANDS_KEYS) =>
        LET n == Cardinality(IPv4Lines(Split(fn_call.output, "\n")))
        IN  /\ n > 0 <=> "BGP_Neighbors" \in DOMAIN fn_call.data
            /\ n > 0 => fn_call.data["BGP_Neighbors"] = n

\* C29 (as claimed): a BastionManager.connect is made on a descriptor of
\* type ssh or gcloud.
C29_CatalogTypesDispatched ==
    bm_op.op = "connect" =>
        BASTION_HOSTS_type(bastion_id) \in {BASTION_TYPE_SSH, BASTION_TYPE_GCLOUD}

\* ---------------------------------------------- claims about the menu loop

\* C31: while the current device has no management IP, option 14 is not
\* inside a jumpbox session: it is neither in jumpbox.connect() nor past it.
C31_NoMgmtIpNoJumpbox ==
    (main_pc # "prompt" /\ device_info_result.mgmt_ip = NoMgmtIp)
        => main_pc \notin {"connect", "shell"}

\* C32: a connected SSHConnection holds a transport: whenever connected is
\* true, ssh_client is set, whichever path of connect_to_jumphost made it so.
C32_ConnectedHoldsTransport == connected => ssh_client # None

\* C33: after a connect() that returned failure the connector is not
\* connected: the BastionManager whose last call was a failed connect, and
\* the jumpbox whose last call was a failed connect, have connected false.
C33_FailedConnectNotConnected ==
    /\ (conn_op = NoConnOp /\ bm_op.op = "connect" /\ ~bm_op.ok)
           => ~bm_connected
    /\ (jb_pc = "idle" /\ jb_ret.op = "connect" /\ ~jb_ret.success)
           => ~jb_connected

\* The BastionManager half of C33 alone.
C33_ManagerHalf ==
    (conn_op = NoConnOp /\ bm_op.op = "connect" /\ ~bm_op.ok) => ~bm_connected

\* The jumpbox half of C33 alone.
C33_JumpboxHalf ==
    (jb_pc = "idle" /\ jb_ret.op = "connect" /\ ~jb_ret.success)
        => ~jb_connected

\* C34: the cached username, once there is one, is one of the candidates and
\* is not among the failed usernames.
C34_CachedUsernameNotFailed ==
    current_username # None =>
        /\ current_username \in Range(usernames)
        /\ current_username \notin Range(failed_usernames)

\* The membership half of C34 alone: the cached username is a candidate.
C34_CachedIsCandidate ==
    current_username # None => current_username \in Range(usernames)

\* ------------------------------------- claims about the jumpbox's clients

\* C35: a jumpbox session has at most one transport open: no client that
\* ssh_client has let go is still open, and once disconnect() has returned
\* the current client is not open either.
C35_OneTransportPerSession ==
    /\ "open" \notin jb_replaced
    /\ (jb_pc = "idle" /\ jb_ret.op = "disconnect") => jb_ssh_client # "open"

\* The step is a _try_connect that succeeded.
TrySucceeded ==
    /\ jb_tried' # jb_tried
    /\ jb_tried' # <<>>
    /\ jb_tried'[Len(jb_tried')].ok

\* C36: a connected jumpbox has its ssh_client set and its current_host is
\* the lowercased primary or fallback host; current_host is the host of the
\* most recent successful attempt: a successful attempt sets it to the host
\* tried, and no other step of a connected jumpbox changes it.
C36_ConnectedHostIsLastSuccess ==
    /\ [](jb_connected =>
            /\ jb_ssh_client # None
            /\ jb_current_host \in {lower(jb_config.primary_host),
                                    lower(jb_config.fallback_host)})
    /\ [][IF TrySucceeded
          THEN /\ jb_connected'
               /\ jb_current_host' = jb_tried'[Len(jb_tried')].host
          ELSE jb_connected' =>
                 (jb_connected /\ jb_current_host' = jb_current_host)]_vars

\* A jumpbox configured with capitalised hosts, connected through the
\* fallback host, whose repeated connect() has then failed on both hosts.
C36_Witness ==
    /\ jb_connected
    /\ jb_config.primary_host[1] = "O"
    /\ jb_current_host = lower(jb_config.fallback_host)
    /\ jb_current_host # jb_config.fallback_host
    /\ jb_pc = "idle"
    /\ jb_ret = [op |-> "connect", success |-> FALSE]
    /\ jb_calls = 2

\* ------------------------------------------ claims about the username probe

\* C37: a run_custom_command that reports the authentication failure has
\* made at least one execute call, the probe, whatever the OS tag is.
C37_ProbeBeforeAuthFailure ==
    (entry.op = "run_custom_command" /\ pc = "idle"
     /\ ret.kind = "custom_auth_failed") => Len(attempts) >= 1

\* The same, for the OS tags that have a command table.
C37_ProbeWhenTagHasTable ==
    (entry.op = "run_custom_command" /\ pc = "idle"
     /\ ret.kind = "custom_auth_failed" /\ device_os \in SHOW_COMMANDS_KEYS)
        => Len(attempts) >= 1

\* ------------------------------------- claims about the order of the relay

\* The step is a pass of the input loop over what readline returned.
InputPass == in_pc = "readline" /\ in_pc' # "readline"

\* C38: a pass of the input loop over a non-empty line begins with the stop
\* flag clear, and sets it only for an exit line that it has sent; a line is
\* left unsent only when channel.send raised, which ends the loop at once.
\* The channel is closed only when the input loop has ended and the stop
\* flag is set.
C38_SendBeforeStopCloseLast ==
    /\ [][(InputPass /\ sh_line'.nonempty) =>
            /\ ~stop_flag
            /\ stop_flag' => (sh_line'.exit /\ sh_line'.sent)
            /\ sh_line'.exit => (sh_line'.sent <=> stop_flag')
            /\ ~sh_line'.sent => in_pc' = "done"]_vars
    /\ [][(channel' = "closed" /\ channel # "closed") =>
            (in_pc = "done" /\ stop_flag)]_vars

\* The input loop has sent an exit line and set the stop flag for it, and
\* the relay has then closed the channel.
C38_Witness ==
    /\ sh_line.exit
    /\ sh_line.sent
    /\ stop_flag
    /\ in_pc = "done"
    /\ channel = "closed"
    /\ sh_ret = "true"

\* An exit line whose send raised has ended the loop with the stop flag clear.
C38_WitnessUnsent ==
    /\ sh_line.exit
    /\ ~sh_line.sent
    /\ ~stop_flag
    /\ in_pc = "done"

====
